---- MODULE Spec2Model ----
(***************************************************************************)
(* Model of the Adaptogen scraper: the URL collector (url_collector.py)    *)
(* and the nutritional extraction engine (nutritional_scraper.py).         *)
(*                                                                         *)
(* Python str values are TLA+ strings; a character is a string of length   *)
(* one.  Each component has its own specification:                         *)
(*   SpecCtl / FairCtl  scrape_proteinas (pagination loop)                 *)
(*   SpecUrls           extract_product_urls                               *)
(*   SpecNum            clean_numeric_value                                *)
(*   SpecPorcao         extract_porcao                                     *)
(*   SpecTable          parse_nutritional_table                            *)
(*   SpecRun            nutritional_scraper.main and scrape_product        *)
(*   SpecCollect        url_collector.main                                 *)
(*   SpecMenu           main.py: the menu, which runs the two above         *)
(***************************************************************************)
EXTENDS Integers, Sequences, FiniteSets, TLC

VARIABLES
    \* scrape_proteinas
    site,        \* the catalog: page number -> what a fetch of it gives
    page,        \* local `page`
    all_urls,    \* local `all_urls` (a list, with repetitions until line 200)
    fetched,     \* history: the page numbers passed to get_page, in order
    extracted,   \* history: the page numbers passed to extract_product_urls
    cpc,         \* "idle" | "loop" | "done"
    result,      \* the list returned
    \* extract_product_urls
    soup,        \* the page given
    unique_urls, \* the list returned
    upc,         \* "idle" | "call" | "done"
    \* clean_numeric_value
    value,       \* the string given
    num,         \* the float returned
    npc,         \* "idle" | "call" | "done"
    \* extract_porcao
    table,       \* the table element given
    porcao,      \* the string returned
    ppc,         \* "idle" | "call" | "done"
    \* parse_nutritional_table
    tsoup,       \* the page given
    data,        \* local `data`
    rowi,        \* index of the next row of `rows`
    written,     \* history: the keys assigned by each row handled so far
    tpc,         \* "idle" | "call" | "rows" | "none" | "done"
    \* nutritional_scraper.main
    produtos_urls, \* the mapping loaded: the (categoria, urls) items in order
    web,           \* the site: url -> what a request for it gives
    ci, ui,        \* position of the two for loops (category, url)
    processed, success, failed,   \* the three counters
    all_products,  \* local `all_products`
    handled,       \* history: the (categoria, url) given to scrape_product
    now,           \* the clock read by datetime.now(), in ticks
    csv,           \* the file dados_extraidos/produtos_nutricionais.csv
    summary,       \* the lines of "RESUMO DA COLETA" logged
    rpc,           \* "idle" | "load" | "loop" | "save" | "summary" | "done" |
                   \* "raised" | "returned"
    \* url_collector.main
    shelf,         \* the one-page categories: name -> what a fetch gives
    produtos,      \* the dict built from the four scrape_ calls, as items
    json,          \* the file json/produtos_urls.json
    kpc,           \* "idle" | a category | "save" | "done" | "raised"
    \* main.py
    mpc,           \* "off" | "menu" | "coletar" | "extrair" | "fluxo_coleta" |
                   \* "fluxo_extracao" | "exit"
    choices        \* the number of options taken at the menu

ctlVars == <<site, page, all_urls, fetched, extracted, cpc, result>>
urlVars == <<soup, unique_urls, upc>>
numVars == <<value, num, npc>>
porVars == <<table, porcao, ppc>>
tabVars == <<tsoup, data, rowi, written, tpc>>
runVars == <<produtos_urls, web, ci, ui, processed, success, failed, all_products,
             handled, now, csv, summary, rpc>>
\* the run's variables but the clock
runRest == <<produtos_urls, web, ci, ui, processed, success, failed, all_products,
             handled, csv, summary, rpc>>
menuVars == <<shelf, produtos, json, kpc, mpc, choices>>
vars == <<ctlVars, urlVars, numVars, porVars, tabVars, runVars, menuVars>>

-----------------------------------------------------------------------------
(* Bounds of the model *)

MaxPage == 3
MaxAnchors == 3
MaxLen == 4
MaxRows == 2
MaxCats == 2
MaxUnits == 3

-----------------------------------------------------------------------------
(* Python str operations *)

Char(s, i) == SubSeq(s, i, i)

\* the slice s[i-1:j] of Python: indices past the end are clamped
Slice(s, i, j) ==
    IF i > Len(s) \/ j < i THEN ""
    ELSE SubSeq(s, i, IF j > Len(s) THEN Len(s) ELSE j)

\* str.startswith
StartsWith(s, p) == Len(s) >= Len(p) /\ SubSeq(s, 1, Len(p)) = p

\* the first index >= i at which `sub` occurs in s, 0 when there is none
FindFrom(s, sub, i) ==
    LET hits == {k \in i..(Len(s) - Len(sub) + 1) : SubSeq(s, k, k + Len(sub) - 1) = sub}
    IN  IF hits = {} THEN 0 ELSE CHOOSE k \in hits : \A j \in hits : k <= j

\* `sub in s`
Contains(s, sub) == FindFrom(s, sub, 1) # 0

\* The whitespace of str.strip, str.split and \s of re, in the order: space,
\* \t, \n, \x0b, \f, \r, \x1c, \x1d, \x1e, \x1f, \x85, \xa0 (no-break space)
\* and U+1680.  A string of the module holds the characters U+0001 to U+00FF
\* but for the grave accent U+0060 and, beyond them, those whose code point
\* ends in a byte of 0x80 or more; the whitespace of Python outside them
\* (U+2000 to U+200A, U+2028, U+2029, U+202F, U+205F, U+3000) has no string
\* to stand for it.
Whitespace ==
    {" ", "\t", "\n", "", "\f", "\r",
     "", "", "", "", "", " ", " "}

IsSpace(c) == c \in Whitespace

RECURSIVE LStrip(_)
LStrip(s) == IF Len(s) > 0 /\ IsSpace(Char(s, 1)) THEN LStrip(Tail(s)) ELSE s

RECURSIVE RStrip(_)
RStrip(s) ==
    IF Len(s) > 0 /\ IsSpace(Char(s, Len(s)))
    THEN RStrip(SubSeq(s, 1, Len(s) - 1)) ELSE s

\* str.strip()
Strip(s) == LStrip(RStrip(s))

\* str.replace(old, new): non-overlapping occurrences, left to right
RECURSIVE Replace(_, _, _)
Replace(s, old, new) ==
    LET i == FindFrom(s, old, 1)
    IN  IF i = 0 THEN s
        ELSE SubSeq(s, 1, i - 1) \o new
             \o Replace(SubSeq(s, i + Len(old), Len(s)), old, new)

\* The capitals among the characters a string of the module can hold, and
\* what str.lower makes of each (the tables of the Python that runs the
\* program, Unicode 14.0); every other character is its own lower case.
UpperChars ==
    "ABCDEFGHIJKLMNOPQRSTUVWXYZÀÁÂÃÄÅÆÇÈÉÊËÌÍÎÏÐÑÒÓÔÕÖØÙÚÛÜÝÞƂƄƇƋƎƑƘƠƢƤƦƧƩƬƮƯƱƲƳƵƷƸƼǄǅǇǈǊǋǍǏǑǓǕǗǙǛǞǠǢǤǦǨǪǬǮǱǲǴǶǷǸǺǼǾΆΈΉΊΌΎΏΑΒΓΔΕΖΗΘΙΚΛΜΝΞΟΠΡΣΤΥΦΧΨΩΪΫϏϘϚϜϞϠϢϤϦϨϪϬϮϴϷϹϺҀҊҌҎҐҒҔҖҘҚҜҞҠҢҤҦҨҪҬҮҰҲҴҶҸҺҼҾӀӁӃӅӇӉӋӍӐӒӔӖӘӚӜӞӠӢӤӦӨӪӬӮӰӲӴӶӸӺӼӾᎰᎱᎲᎳᎴᎵᎶᎷᎸᎹᎺᎻᎼᎽᎾᎿᏀᏁᏂᏃᏄᏅᏆᏇᏈᏉᏊᏋᏌᏍᏎᏏᏐᏑᏒᏓᏔᏕᏖᏗᏘᏙᏚᏛᏜᏝᏞᏟᏠᏡᏢᏣᏤᏥᏦᏧᏨᏩᏪᏫᏬᏭᏮᏯᏰᏱᏲᏳᏴᏵᲐᲑᲒᲓᲔᲕᲖᲗᲘᲙᲚᲛᲜᲝᲞᲟᲠᲡᲢᲣᲤᲥᲦᲧᲨᲩᲪᲫᲬᲭᲮᲯᲰᲱᲲᲳᲴᲵᲶᲷᲸᲹᲺᲽᲾᲿẀẂẄẆẈẊẌẎẐẒẔẞẠẢẤẦẨẪẬẮẰẲẴẶẸẺẼẾỀỂỄỆỈỊỌỎỐỒỔỖỘỚỜỞỠỢỤỦỨỪỬỮỰỲỴỶỸỺỼỾᾈᾉᾊᾋᾌᾍᾎᾏᾘᾙᾚᾛᾜᾝᾞᾟᾨᾩᾪᾫᾬᾭᾮᾯᾸᾹᾼῌῘῙῨῩῬῼↃⒶⒷⒸⒹⒺⒻⒼⒽⒾⒿⓀⓁⓂⓃⓄⓅⓆⓇⓈⓉⓊⓋⓌⓍⓎⓏⲀⲂⲄⲆⲈⲊⲌⲎⲐⲒⲔⲖⲘⲚⲜⲞⲠⲢⲤⲦⲨⲪⲬⲮⲰⲲⲴⲶⲸⲺⲼⲾⳀⳂⳄⳆⳈⳊⳌⳎⳐⳒⳔⳖⳘⳚⳜⳞⳠⳢⳫⳭⳲꚀꚂꚄꚆꚈꚊꚌꚎꚐꚒꚔꚖꚘꚚꞀꞂꞄꞆꞋꞐꞒꞖꞘꞚꞜꞞꞠꞢꞤꞦꞨꞰꞱꞲꞴꞶꞸꞺꞼꞾꟀꟂꟄꟅꟆꟇꟉꟐꟖꟘꟵ"
LowerChars ==
    "abcdefghijklmnopqrstuvwxyzàáâãäåæçèéêëìíîïðñòóôõöøùúûüýþƃƅƈƌǝƒƙơƣƥʀƨʃƭʈưʊʋƴƶʒƹƽǆǆǉǉǌǌǎǐǒǔǖǘǚǜǟǡǣǥǧǩǫǭǯǳǳǵƕƿǹǻǽǿάέήίόύώαβγδεζηθικλμνξοπρστυφχψωϊϋϗϙϛϝϟϡϣϥϧϩϫϭϯθϸϲϻҁҋҍҏґғҕҗҙқҝҟҡңҥҧҩҫҭүұҳҵҷҹһҽҿӏӂӄӆӈӊӌӎӑӓӕӗәӛӝӟӡӣӥӧөӫӭӯӱӳӵӷӹӻӽӿꮀꮁꮂꮃꮄꮅꮆꮇꮈꮉꮊꮋꮌꮍꮎꮏꮐꮑꮒꮓꮔꮕꮖꮗꮘꮙꮚꮛꮜꮝꮞꮟꮠꮡꮢꮣꮤꮥꮦꮧꮨꮩꮪꮫꮬꮭꮮꮯꮰꮱꮲꮳꮴꮵꮶꮷꮸꮹꮺꮻꮼꮽꮾꮿᏸᏹᏺᏻᏼᏽაბგდევზთიკლმნოპჟრსტუფქღყშჩცძწჭხჯჰჱჲჳჴჵჶჷჸჹჺჽჾჿẁẃẅẇẉẋẍẏẑẓẕßạảấầẩẫậắằẳẵặẹẻẽếềểễệỉịọỏốồổỗộớờởỡợụủứừửữựỳỵỷỹỻỽỿᾀᾁᾂᾃᾄᾅᾆᾇᾐᾑᾒᾓᾔᾕᾖᾗᾠᾡᾢᾣᾤᾥᾦᾧᾰᾱᾳῃῐῑῠῡῥῳↄⓐⓑⓒⓓⓔⓕⓖⓗⓘⓙⓚⓛⓜⓝⓞⓟⓠⓡⓢⓣⓤⓥⓦⓧⓨⓩⲁⲃⲅⲇⲉⲋⲍⲏⲑⲓⲕⲗⲙⲛⲝⲟⲡⲣⲥⲧⲩⲫⲭⲯⲱⲳⲵⲷⲹⲻⲽⲿⳁⳃⳅⳇⳉⳋⳍⳏⳑⳓⳕⳗⳙⳛⳝⳟⳡⳣⳬⳮⳳꚁꚃꚅꚇꚉꚋꚍꚏꚑꚓꚕꚗꚙꚛꞁꞃꞅꞇꞌꞑꞓꞗꞙꞛꞝꞟꞡꞣꞥꞧꞩʞʇʝꞵꞷꞹꞻꞽꞿꟁꟃꞔʂᶎꟈꟊꟑꟗꟙꟶ"

\* The capitals whose small letter no string of the module can hold.  The
\* small letter is written by its code point, "U+0253": no text that
\* str.lower returns holds a capital U, so the notation stands for nothing
\* else.
UpperBeyond ==
    "ƁƆƉƊƏƐƓƔƖƗƜƝƟϽϾϿႠႡႢႣႤႥႦႧႨႩႪႫႬႭႮႯႰႱႲႳႴႵႶႷႸႹႺႻႼႽႾႿჀჁჂჃჄჅჇჍᎠᎡᎢᎣᎤᎥᎦᎧᎨᎩᎪᎫᎬᎭᎮᎯᾺΆῈΈῊΉῚΊῪΎῸΌῺΏꞍꞪꞫꞬꞭꞮꞳ"
LowerBeyond ==
    "U+0253U+0254U+0256U+0257U+0259U+025BU+0260U+0263U+0269U+0268U+026FU+0272U+0275U+037BU+037CU+037DU+2D00U+2D01U+2D02U+2D03U+2D04U+2D05U+2D06U+2D07U+2D08U+2D09U+2D0AU+2D0BU+2D0CU+2D0DU+2D0EU+2D0FU+2D10U+2D11U+2D12U+2D13U+2D14U+2D15U+2D16U+2D17U+2D18U+2D19U+2D1AU+2D1BU+2D1CU+2D1DU+2D1EU+2D1FU+2D20U+2D21U+2D22U+2D23U+2D24U+2D25U+2D27U+2D2DU+AB70U+AB71U+AB72U+AB73U+AB74U+AB75U+AB76U+AB77U+AB78U+AB79U+AB7AU+AB7BU+AB7CU+AB7DU+AB7EU+AB7FU+1F70U+1F71U+1F72U+1F73U+1F74U+1F75U+1F76U+1F77U+1F7AU+1F7BU+1F78U+1F79U+1F7CU+1F7DU+0265U+0266U+025CU+0261U+026CU+026AU+AB53"

LowerOf ==
    [i \in 1..Len(UpperChars) |-> <<Char(UpperChars, i), Char(LowerChars, i)>>]
    \o [i \in 1..Len(UpperBeyond) |->
           <<Char(UpperBeyond, i), SubSeq(LowerBeyond, 6 * i - 5, 6 * i)>>]
UpperSet == {LowerOf[i][1] : i \in DOMAIN LowerOf}

\* c.lower() for a character c
LowerChar(c) ==
    IF c \in UpperSet
    THEN LowerOf[CHOOSE i \in DOMAIN LowerOf : LowerOf[i][1] = c][2]
    ELSE c

\* The characters that decide the lower case of a capital sigma: the
\* case-ignorable ones, and the cased ones among the others.
CaseIgnorableChars ==
    "'.:^¨­¯´·¸ʰʱʲʳʴʵʶʷʸʹʺʻʼʽʾʿˀˁ˂˃˄˅ˆˇˈˉˊˋˌˍˎˏːˑ˒˓˔˕˖˗˘˙˚˛˜˝˞˟ˠˡˢˣˤ˥˦˧˨˩˪˫ˬ˭ˮ˯˰˱˲˳˴˵˶˷˸˹˺˻˼˽˾˿΄΅·҃҄҅҆҇҈҉ְֱֲֳִֵֶַָׇֹֺֻּֽֿׁׂ֑֖֛֢֣֤֥֦֧֪ׅ֚֭֮֒֓֔֕֗֘֙֜֝֞֟֠֡֨֩֫֬֯ׄ״ۖۗۘۙۚۛۜ۝ۣ۟۠ۡۢۤۥۦ۪ۭۧۨ۫۬ަާިީުޫެޭޮޯް߲߫߬߭߮߯߰߱߳ߴߵߺ߽࢈࢐࢑࢙࢚࢛࢘࢜࢝࢞࢟ࣉ࣏࣐࣑࣒࣓࣊࣋࣌࣍࣎ࣔࣕࣖࣗࣘࣙࣚࣛࣜࣝࣞࣟ࣠࣡࣢ࣰࣱࣲࣣࣦࣩ࣭࣮࣯ࣶࣹࣺࣤࣥࣧࣨ࣪࣫࣬ࣳࣴࣵࣷࣸࣻࣼࣽࣾࣿঁ়ুূৃৄ্ৢৣ৾ઁં઼ુૂૃૄૅેૈ્ૢૣૺૻૼ૽૾૿ஂீ்ಁ಼ಿೆೌ್ೢೣඁ්ිීුූັິີຶື຺ຸູົຼໆ່້໊໋໌ໍ྄ཱྀྀྂྃ྆྇ྍྎྏྐྑྒྒྷྔྕྖྗྙྚྛྜྜྷྞྟྠྡྡྷྣྤྥྦྦྷྨྩྪྫྫྷྭྮྯྰྱྲླྴྵྶྷྸྐྵྺྻྼ࿆ႂႅႆႍႝჼ឴឵ិីឹឺុូួំ៉៊់៌៍៎៏័៑្៓ៗ៝ᢅᢆᢩᪧ᪵᪶᪷᪸᪹᪺᪽᪰᪱᪲᪳᪴᪻᪼᪾ᪿᫀ᫃᫄᫊᫁᫂᫅᫆᫇᫈᫉᫋ᫌᫍᫎᮀᮁᮢᮣᮤᮥᮨᮩ᮫ᮬᮭ᯦ᯨᯩᯭᯯᯰᯱ᳔᳢᳣᳤᳥᳦᳧᳨᳕᳖᳗᳘᳙᳜᳝᳞᳟᳭᳐᳑᳒᳚᳛᳠᳴᳸᳹ᶛᶜᶝᶞᶟᶠᶡᶢᶣᶤᶥᶦᶧᶨᶩᶪᶫᶬᶭᶮᶯᶰᶱᶲᶳᶴᶵᶶᶷᶸᶹᶺᶻᶼᶽᶾᶿ᷐᷎᷺᷂᷊᷏᷹᷽᷿᷷᷸᷀᷁᷃᷄᷅᷆᷇᷈᷉᷋᷌᷑᷒ᷓᷔᷕᷖᷗᷘᷙᷚᷛᷜᷝᷞᷟᷠᷡᷢᷣᷤᷥᷦᷧᷨᷩᷪᷫᷬᷭᷮᷯᷰᷱᷲᷳᷴ᷵᷻᷾᷶᷼᷍᾽᾿῀῁῍῎῏῝῞῟῭΅`´῾ₐₑₒₓₔₕₖₗₘₙₚₛₜ⃒⃓⃘⃙⃚⃐⃑⃔⃕⃖⃗⃛⃜⃝⃞⃟⃠⃡⃢⃣⃤⃥⃦⃪⃫゙゚⃨⃬⃭⃮⃯⃧⃩⃰⳯⳰⳱ⷠⷡⷢⷣⷤⷥⷦⷧⷨⷩⷪⷫⷬⷭⷮⷯⷰⷱⷲⷳⷴⷵⷶⷷⷸⷹⷺⷻⷼⷽⷾⷿ゛゜ゝゞーヽヾꓸꓹꓺꓻꓼꓽꚜꚝꚞꚟ꛰꛱ꞈ꞉꞊ꟲꟳꟴꟸꟹ꣄ꣅ꣠꣡꣢꣣꣤꣥꣦꣧꣨꣩꣪꣫꣬꣭꣮꣯꣰꣱ꣿꦀꦁꦂ꦳ꦶꦷꦸꦹꦼꦽꧏꧥꧦꪴꪰꪲꪳꪷꪸꪾ꪿꫁ꫝꫬꫭꫳꫴ꫶ꯥꯨ꯭﮲﮳﮴﮵﮶﮷﮸﮹﮺﮻﮼﮽﮾﮿﯀﯁﯂﻿ﾞﾟ￣￹￺￻"
CasedChars ==
    "ABCDEFGHIJKLMNOPQRSTUVWXYZabcdefghijklmnopqrstuvwxyzªµºÀÁÂÃÄÅÆÇÈÉÊËÌÍÎÏÐÑÒÓÔÕÖØÙÚÛÜÝÞßàáâãäåæçèéêëìíîïðñòóôõöøùúûüýþÿƀƁƂƃƄƅƆƇƈƉƊƋƌƍƎƏƐƑƒƓƔƕƖƗƘƙƚƛƜƝƞƟƠơƢƣƤƥƦƧƨƩƪƫƬƭƮƯưƱƲƳƴƵƶƷƸƹƺƼƽƾƿǄǅǆǇǈǉǊǋǌǍǎǏǐǑǒǓǔǕǖǗǘǙǚǛǜǝǞǟǠǡǢǣǤǥǦǧǨǩǪǫǬǭǮǯǰǱǲǳǴǵǶǷǸǹǺǻǼǽǾǿʀʁʂʃʄʅʆʇʈʉʊʋʌʍʎʏʐʑʒʓʕʖʗʘʙʚʛʜʝʞʟʠʡʢʣʤʥʦʧʨʩʪʫʬʭʮʯΆΈΉΊΌΎΏΐΑΒΓΔΕΖΗΘΙΚΛΜΝΞΟΠΡΣΤΥΦΧΨΩΪΫάέήίΰαβγδεζηθικλμνξοπρςστυφχψωϊϋόύώϏϐϑϒϓϔϕϖϗϘϙϚϛϜϝϞϟϠϡϢϣϤϥϦϧϨϩϪϫϬϭϮϯϰϱϲϳϴϵϷϸϹϺϻϼϽϾϿҀҁҊҋҌҍҎҏҐґҒғҔҕҖҗҘҙҚқҜҝҞҟҠҡҢңҤҥҦҧҨҩҪҫҬҭҮүҰұҲҳҴҵҶҷҸҹҺһҼҽҾҿӀӁӂӃӄӅӆӇӈӉӊӋӌӍӎӏӐӑӒӓӔӕӖӗӘәӚӛӜӝӞӟӠӡӢӣӤӥӦӧӨөӪӫӬӭӮӯӰӱӲӳӴӵӶӷӸӹӺӻӼӽӾӿրցւփքօֆևֈႠႡႢႣႤႥႦႧႨႩႪႫႬႭႮႯႰႱႲႳႴႵႶႷႸႹႺႻႼႽႾႿჀჁჂჃჄჅჇჍაბგდევზთიკლმნოპჟრსტუფქღყშჩცძწჭხჯჰჱჲჳჴჵჶჷჸჹჺჽჾჿᎠᎡᎢᎣᎤᎥᎦᎧᎨᎩᎪᎫᎬᎭᎮᎯᎰᎱᎲᎳᎴᎵᎶᎷᎸᎹᎺᎻᎼᎽᎾᎿᏀᏁᏂᏃᏄᏅᏆᏇᏈᏉᏊᏋᏌᏍᏎᏏᏐᏑᏒᏓᏔᏕᏖᏗᏘᏙᏚᏛᏜᏝᏞᏟᏠᏡᏢᏣᏤᏥᏦᏧᏨᏩᏪᏫᏬᏭᏮᏯᏰᏱᏲᏳᏴᏵᏸᏹᏺᏻᏼᏽᲀᲁᲂᲃᲄᲅᲆᲇᲈᲐᲑᲒᲓᲔᲕᲖᲗᲘᲙᲚᲛᲜᲝᲞᲟᲠᲡᲢᲣᲤᲥᲦᲧᲨᲩᲪᲫᲬᲭᲮᲯᲰᲱᲲᲳᲴᲵᲶᲷᲸᲹᲺᲽᲾᲿᶀᶁᶂᶃᶄᶅᶆᶇᶈᶉᶊᶋᶌᶍᶎᶏᶐᶑᶒᶓᶔᶕᶖᶗᶘᶙᶚẀẁẂẃẄẅẆẇẈẉẊẋẌẍẎẏẐẑẒẓẔẕẖẗẘẙẚẛẜẝẞẟẠạẢảẤấẦầẨẩẪẫẬậẮắẰằẲẳẴẵẶặẸẹẺẻẼẽẾếỀềỂểỄễỆệỈỉỊịỌọỎỏỐốỒồỔổỖỗỘộỚớỜờỞởỠỡỢợỤụỦủỨứỪừỬửỮữỰựỲỳỴỵỶỷỸỹỺỻỼỽỾỿᾀᾁᾂᾃᾄᾅᾆᾇᾈᾉᾊᾋᾌᾍᾎᾏᾐᾑᾒᾓᾔᾕᾖᾗᾘᾙᾚᾛᾜᾝᾞᾟᾠᾡᾢᾣᾤᾥᾦᾧᾨᾩᾪᾫᾬᾭᾮᾯᾰᾱᾲᾳᾴᾶᾷᾸᾹᾺΆᾼιῂῃῄῆῇῈΈῊΉῌῐῑῒΐῖῗῘῙῚΊῠῡῢΰῤῥῦῧῨῩῪΎῬῲῳῴῶῷῸΌῺΏῼↃↄⒶⒷⒸⒹⒺⒻⒼⒽⒾⒿⓀⓁⓂⓃⓄⓅⓆⓇⓈⓉⓊⓋⓌⓍⓎⓏⓐⓑⓒⓓⓔⓕⓖⓗⓘⓙⓚⓛⓜⓝⓞⓟⓠⓡⓢⓣⓤⓥⓦⓧⓨⓩⲀⲁⲂⲃⲄⲅⲆⲇⲈⲉⲊⲋⲌⲍⲎⲏⲐⲑⲒⲓⲔⲕⲖⲗⲘⲙⲚⲛⲜⲝⲞⲟⲠⲡⲢⲣⲤⲥⲦⲧⲨⲩⲪⲫⲬⲭⲮⲯⲰⲱⲲⲳⲴⲵⲶⲷⲸⲹⲺⲻⲼⲽⲾⲿⳀⳁⳂⳃⳄⳅⳆⳇⳈⳉⳊⳋⳌⳍⳎⳏⳐⳑⳒⳓⳔⳕⳖⳗⳘⳙⳚⳛⳜⳝⳞⳟⳠⳡⳢⳣⳤⳫⳬⳭⳮⳲⳳꚀꚁꚂꚃꚄꚅꚆꚇꚈꚉꚊꚋꚌꚍꚎꚏꚐꚑꚒꚓꚔꚕꚖꚗꚘꚙꚚꚛꞀꞁꞂꞃꞄꞅꞆꞇꞋꞌꞍꞎꞐꞑꞒꞓꞔꞕꞖꞗꞘꞙꞚꞛꞜꞝꞞꞟꞠꞡꞢꞣꞤꞥꞦꞧꞨꞩꞪꞫꞬꞭꞮꞯꞰꞱꞲꞳꞴꞵꞶꞷꞸꞹꞺꞻꞼꞽꞾꞿꟀꟁꟂꟃꟄꟅꟆꟇꟈꟉꟊꟐꟑꟓꟕꟖꟗꟘꟙꟵꟶꟺꮀꮁꮂꮃꮄꮅꮆꮇꮈꮉꮊꮋꮌꮍꮎꮏꮐꮑꮒꮓꮔꮕꮖꮗꮘꮙꮚꮛꮜꮝꮞꮟꮠꮡꮢꮣꮤꮥꮦꮧꮨꮩꮪꮫꮬꮭꮮꮯꮰꮱꮲꮳꮴꮵꮶꮷꮸꮹꮺꮻꮼꮽꮾꮿ"
CaseIgnorable == {Char(CaseIgnorableChars, i) : i \in 1..Len(CaseIgnorableChars)}
Cased == {Char(CasedChars, i) : i \in 1..Len(CasedChars)}

\* str.lower() writes the capital sigma at index i as a final sigma when a
\* cased character comes before it and none comes after it, case-ignorable
\* characters skipped on both sides
FinalSigma(s, i) ==
    LET before == {j \in 1..(i - 1) : Char(s, j) \notin CaseIgnorable}
        after == {j \in (i + 1)..Len(s) : Char(s, j) \notin CaseIgnorable}
    IN  /\ before # {}
        /\ Char(s, CHOOSE j \in before : \A k \in before : k <= j) \in Cased
        /\ \/ after = {}
           \/ Char(s, CHOOSE j \in after : \A k \in after : j <= k) \notin Cased

RECURSIVE LowerFrom(_, _)
LowerFrom(s, i) ==
    IF i > Len(s) THEN ""
    ELSE (IF Char(s, i) = "Σ" /\ FinalSigma(s, i) THEN "ς"
          ELSE LowerChar(Char(s, i))) \o LowerFrom(s, i + 1)

\* str.lower()
Lower(s) == LowerFrom(s, 1)

\* ' '.join(s.split()) : whitespace runs collapsed to one space, ends trimmed
RECURSIVE JoinSplit(_)
JoinSplit(s) ==
    LET t == LStrip(s)
    IN  IF t = "" THEN ""
        ELSE LET w == CHOOSE k \in 1..Len(t) :
                        /\ \A j \in 1..k : ~IsSpace(Char(t, j))
                        /\ (k = Len(t) \/ IsSpace(Char(t, k + 1)))
                 rest == JoinSplit(SubSeq(t, w + 1, Len(t)))
             IN  IF rest = "" THEN SubSeq(t, 1, w)
                 ELSE SubSeq(t, 1, w) \o " " \o rest

\* the elements of a list
Range(seq) == {seq[i] : i \in 1..Len(seq)}

\* the lists holding each element of the set S once
Orderings(S) ==
    {f \in [1..Cardinality(S) -> S] : \A i, j \in 1..Cardinality(S) : f[i] = f[j] => i = j}

-----------------------------------------------------------------------------
(* url_collector.py: extract_product_urls *)

BASE_URL == "https://adaptogen.com.br"

\* seconds slept after a request that succeeded (the same in both modules)
REQUEST_DELAY == 2

\* The clock counts ticks of 1/80 s: every pause of the program (2 s, and the
\* 1.5/40 s steps of the progress bar) is a whole number of them.
TICKS == 80
PRODUCT_LINK_CLASS == "woocommerce-LoopProduct-link"
PRODUCT_PATH == "/produto/"
NO_PRODUCTS_TEXT == "Nenhum produto encontrado"

\* An <a> element: its classes, whether it has an href attribute, and the href.
Anchor(cls, has, h) == [classes |-> cls, has_href |-> has, href |-> h]

\* A fetched page: whether the request succeeded, the strings of its <h3>
\* elements and its <a> elements in document order.
Page(o, h, a) == [ok |-> o, h3 |-> h, anchors |-> a]

\* soup.find_all('a', class_='woocommerce-LoopProduct-link')
PrimaryLinks(s) ==
    SelectSeq(s.anchors, LAMBDA a : PRODUCT_LINK_CLASS \in a.classes)

\* soup.find_all('a', href=True) filtered on '/produto/' in href
FallbackLinks(s) ==
    SelectSeq(s.anchors, LAMBDA a : a.has_href /\ Contains(a.href, PRODUCT_PATH))

\* A faulty variant of ProductLinks: the fallback matches are added to the primary ones.
ProductLinks_Both(s) == PrimaryLinks(s) \o FallbackLinks(s)

\* the fallback selector is used only when the primary one matched nothing
ProductLinks(s) ==
    IF PrimaryLinks(s) = <<>> THEN FallbackLinks(s) ELSE PrimaryLinks(s)

\* "Garante URL absoluta": the three branches on the href
AbsoluteUrl(href, base_url) ==
    IF StartsWith(href, "http") THEN href
    ELSE IF StartsWith(href, "/") THEN base_url \o href
    ELSE base_url \o "/" \o href

\* the loop over product_links: links with no (or an empty) href are skipped
RECURSIVE LinkUrls(_, _)
LinkUrls(links, base_url) ==
    IF links = <<>> THEN <<>>
    ELSE LET a == Head(links)
         IN  (IF a.has_href /\ a.href # "" THEN <<AbsoluteUrl(a.href, base_url)>> ELSE <<>>)
             \o LinkUrls(Tail(links), base_url)

\* "Remove duplicatas mantendo a ordem": the seen / unique_urls loop
RECURSIVE UniqueFrom(_, _)
UniqueFrom(urls, seen) ==
    IF urls = <<>> THEN <<>>
    ELSE IF Head(urls) \in seen THEN UniqueFrom(Tail(urls), seen)
    ELSE <<Head(urls)>> \o UniqueFrom(Tail(urls), seen \cup {Head(urls)})

\* A faulty variant of UniqueUrls: of equal urls the last one is kept, not the first.
RECURSIVE UniqueUrls_KeepsLast(_)
UniqueUrls_KeepsLast(urls) ==
    IF urls = <<>> THEN <<>>
    ELSE IF Head(urls) \in Range(Tail(urls)) THEN UniqueUrls_KeepsLast(Tail(urls))
    ELSE <<Head(urls)>> \o UniqueUrls_KeepsLast(Tail(urls))

UniqueUrls(urls) == UniqueFrom(urls, {})

extract_product_urls(s, base_url) == UniqueUrls(LinkUrls(ProductLinks(s), base_url))

\* The hrefs and anchors the collector is run on.
Hrefs ==
    { "https://adaptogen.com.br/produto/whey", "/produto/whey", "produto/bar",
      "http-guia/produto/x", "//cdn.adaptogen.com.br/produto/x", "/sobre", "" }

Anchors ==
    {Anchor(c, TRUE, h) : c \in {{}, {PRODUCT_LINK_CLASS}}, h \in Hrefs}
    \cup {Anchor(c, FALSE, "") : c \in {{}, {PRODUCT_LINK_CLASS}}}

SeqsUpTo(S, n) == UNION {[1..k -> S] : k \in 0..n}

NoPage == Page(TRUE, {}, <<>>)

IdleUrls == soup = NoPage /\ unique_urls = <<>> /\ upc = "idle"

\* def extract_product_urls(soup, base_url=BASE_URL)
ExtractProductUrls ==
    /\ upc = "call"
    /\ unique_urls' = extract_product_urls(soup, BASE_URL)
    /\ upc' = "done"
    /\ UNCHANGED <<soup, ctlVars, numVars, porVars, tabVars, runVars, menuVars>>

-----------------------------------------------------------------------------
(* url_collector.py: scrape_proteinas *)

\* soup.find('h3', string='Nenhum produto encontrado')
no_products(s) == NO_PRODUCTS_TEXT \in s.h3

\* What the catalog may answer for one page number.
FailedFetch == Page(FALSE, {}, <<>>)
CatalogPages ==
    { FailedFetch,
      Page(TRUE, {}, <<Anchor({PRODUCT_LINK_CLASS}, TRUE, "/produto/whey"),
                       Anchor({PRODUCT_LINK_CLASS}, TRUE, "/produto/bar")>>),
      Page(TRUE, {"Nenhum produto encontrado."},
           <<Anchor({PRODUCT_LINK_CLASS}, TRUE, "https://adaptogen.com.br/produto/whey")>>),
      Page(TRUE, {"Proteínas"}, <<Anchor({}, TRUE, "/produto/iso")>>),
      Page(TRUE, {"Proteínas"}, <<Anchor({}, TRUE, "/sobre")>>),
      Page(TRUE, {"Proteínas", NO_PRODUCTS_TEXT},
           <<Anchor({PRODUCT_LINK_CLASS}, TRUE, "/produto/extra")>>) }

IdleCtl ==
    /\ site = <<>> /\ page = 0 /\ all_urls = <<>> /\ fetched = <<>>
    /\ extracted = <<>> /\ cpc = "idle" /\ result = <<>>

\* A faulty variant of Finish: the list is returned without the set() pass.
Finish_KeepsDuplicates(urls) ==
    /\ all_urls' = urls
    /\ result' = urls
    /\ cpc' = "done"

\* lines 199-202: all_urls = list(set(all_urls)), in an order the set decides,
\* is what the local holds from then on and what is returned
Finish(urls) ==
    /\ all_urls' \in Orderings(Range(urls))
    /\ result' = all_urls'
    /\ cpc' = "done"

\* A faulty variant of FetchFails: the failed page is requested again.
FetchFails_Retries ==
    /\ cpc = "loop" /\ page <= MaxPage
    /\ ~site[page].ok
    /\ Len(fetched) < 2 * MaxPage
    /\ fetched' = Append(fetched, page)
    /\ UNCHANGED <<site, page, all_urls, extracted, cpc, result, urlVars, numVars,
                   porVars, tabVars, runVars, menuVars>>

\* one iteration in which get_page raises: the except clause breaks
FetchFails ==
    /\ cpc = "loop" /\ page <= MaxPage
    /\ ~site[page].ok
    /\ fetched' = Append(fetched, page)
    /\ Finish(all_urls)
    /\ UNCHANGED <<site, page, extracted, urlVars, numVars, porVars, tabVars, runVars, menuVars>>

\* A faulty variant of EndOfPagination: the page is given to extract_product_urls
\* before the marker is looked for.
EndOfPagination_Collects ==
    /\ cpc = "loop" /\ page <= MaxPage
    /\ site[page].ok
    /\ no_products(site[page])
    /\ fetched' = Append(fetched, page)
    /\ now' = now + REQUEST_DELAY * TICKS
    /\ extracted' = Append(extracted, page)
    /\ Finish(all_urls)
    /\ UNCHANGED <<site, page, urlVars, numVars, porVars, tabVars, runRest, menuVars>>

\* one iteration in which the page has the <h3> marker: break
EndOfPagination ==
    /\ cpc = "loop" /\ page <= MaxPage
    /\ site[page].ok
    /\ no_products(site[page])
    /\ fetched' = Append(fetched, page)
    /\ now' = now + REQUEST_DELAY * TICKS
    /\ Finish(all_urls)
    /\ UNCHANGED <<site, page, extracted, urlVars, numVars, porVars, tabVars, runRest, menuVars>>

\* A faulty variant of NoUrlsOnPage: an empty page is skipped and the loop goes on.
NoUrlsOnPage_Continues ==
    /\ cpc = "loop" /\ page <= MaxPage
    /\ site[page].ok
    /\ ~no_products(site[page])
    /\ extract_product_urls(site[page], BASE_URL) = <<>>
    /\ fetched' = Append(fetched, page)
    /\ now' = now + REQUEST_DELAY * TICKS
    /\ extracted' = Append(extracted, page)
    /\ page' = page + 1
    /\ UNCHANGED <<site, all_urls, cpc, result, urlVars, numVars, porVars, tabVars, runRest, menuVars>>

\* one iteration in which extract_product_urls returns the empty list: break
NoUrlsOnPage ==
    /\ cpc = "loop" /\ page <= MaxPage
    /\ site[page].ok
    /\ ~no_products(site[page])
    /\ extract_product_urls(site[page], BASE_URL) = <<>>
    /\ fetched' = Append(fetched, page)
    /\ now' = now + REQUEST_DELAY * TICKS
    /\ extracted' = Append(extracted, page)
    /\ Finish(all_urls)
    /\ UNCHANGED <<site, page, urlVars, numVars, porVars, tabVars, runRest, menuVars>>

\* A faulty variant of CollectPage: the loop ends after the first page that has urls.
CollectPage_StopsAfterOne ==
    /\ cpc = "loop" /\ page <= MaxPage
    /\ site[page].ok
    /\ ~no_products(site[page])
    /\ extract_product_urls(site[page], BASE_URL) # <<>>
    /\ fetched' = Append(fetched, page)
    /\ now' = now + REQUEST_DELAY * TICKS
    /\ extracted' = Append(extracted, page)
    /\ Finish(all_urls \o extract_product_urls(site[page], BASE_URL))
    /\ UNCHANGED <<site, page, urlVars, numVars, porVars, tabVars, runRest, menuVars>>

\* one iteration that extends all_urls and goes on to the next page
CollectPage ==
    /\ cpc = "loop" /\ page <= MaxPage
    /\ site[page].ok
    /\ ~no_products(site[page])
    /\ extract_product_urls(site[page], BASE_URL) # <<>>
    /\ fetched' = Append(fetched, page)
    /\ now' = now + REQUEST_DELAY * TICKS
    /\ extracted' = Append(extracted, page)
    /\ all_urls' = all_urls \o extract_product_urls(site[page], BASE_URL)
    /\ page' = page + 1
    /\ UNCHANGED <<site, cpc, result, urlVars, numVars, porVars, tabVars, runRest, menuVars>>


-----------------------------------------------------------------------------
(* nutritional_scraper.py: clean_numeric_value *)

Digits == "0123456789"

\* The decimal digits of \d and of float() among the characters a string of
\* the module can hold: runs of ten, each from its zero to its nine.
DecimalDigits ==
    "0123456789۰۱۲۳۴۵۶۷۸۹߀߁߂߃߄߅߆߇߈߉০১২৩৪৫৬৭৮৯૦૧૨૩૪૫૬૭૮૯௦௧௨௩௪௫௬௭௮௯೦೧೨೩೪೫೬೭೮೯෦෧෨෩෪෫෬෭෮෯໐໑໒໓໔໕໖໗໘໙႐႑႒႓႔႕႖႗႘႙០១២៣៤៥៦៧៨៩᧐᧑᧒᧓᧔᧕᧖᧗᧘᧙᪀᪁᪂᪃᪄᪅᪆᪇᪈᪉᪐᪑᪒᪓᪔᪕᪖᪗᪘᪙᮰᮱᮲᮳᮴᮵᮶᮷᮸᮹꣐꣑꣒꣓꣔꣕꣖꣗꣘꣙꧐꧑꧒꧓꧔꧕꧖꧗꧘꧙꧰꧱꧲꧳꧴꧵꧶꧷꧸꧹꯰꯱꯲꯳꯴꯵꯶꯷꯸꯹"
DigitSet == {Char(DecimalDigits, i) : i \in 1..Len(DecimalDigits)}
IsDigit(c) == c \in DigitSet

\* the ASCII digit of the same value; float() reads any decimal digit so
AsciiDigit(c) ==
    IF IsDigit(c) /\ ~Contains(Digits, c)
    THEN Char(Digits, ((FindFrom(DecimalDigits, c, 1) - 1) % 10) + 1)
    ELSE c

RECURSIVE Ascii(_)
Ascii(s) ==
    IF Len(s) = 0 THEN ""
    ELSE IF Len(s) = 1 THEN AsciiDigit(s)
    ELSE Ascii(SubSeq(s, 1, Len(s) \div 2)) \o Ascii(SubSeq(s, Len(s) \div 2 + 1, Len(s)))

\* A float is kept as the decimal that repr() prints for it, the shortest
\* one that converts back to the same binary64: sign, integer digits without
\* leading zeros, fraction digits without trailing zeros; inf is the
\* IEEE-754 binary64 overflow.
Number(n, i, f) == [neg |-> n, inf |-> FALSE, int |-> i, frac |-> f]
Infinity(n) == [neg |-> n, inf |-> TRUE, int |-> "", frac |-> ""]
Zero == Number(FALSE, "0", "")
ValueError == [raised |-> "ValueError"]

\* 2^1024 - 2^970: every decimal at or above it rounds to inf in binary64
DBL_OVERFLOW ==
    "179769313486231580793728971405303415079934132710037826936173778980444968292764750946649017977587207096330286416692887910946555547851940402630657488671505820681908902000708383676273854845817711531764475730270069855571366959622842914819860834936475292719074168444365510704342711559699508093042880177904174497792"

StripLeadingZeros(d) ==
    LET rest == {k \in 1..Len(d) : Char(d, k) # "0"}
    IN  IF rest = {} THEN "0"
        ELSE SubSeq(d, CHOOSE k \in rest : \A j \in rest : k <= j, Len(d))

StripTrailingZeros(d) ==
    LET rest == {k \in 1..Len(d) : Char(d, k) # "0"}
    IN  IF rest = {} THEN ""
        ELSE SubSeq(d, 1, CHOOSE k \in rest : \A j \in rest : k >= j)

\* a >= b for digit strings of the same length
DigitsGE(a, b) ==
    \/ a = b
    \/ \E i \in 1..Len(a) :
          /\ Slice(a, 1, i - 1) = Slice(b, 1, i - 1)
          /\ FindFrom(Digits, Char(a, i), 1) > FindFrom(Digits, Char(b, i), 1)

Overflows(int) ==
    \/ Len(int) > Len(DBL_OVERFLOW)
    \/ Len(int) = Len(DBL_OVERFLOW) /\ DigitsGE(int, DBL_OVERFLOW)

\* sys.float_info.dig: a decimal of at most 15 digits is the repr() of the
\* binary64 nearest to it; 17 digits tell any two binary64 apart
DBL_DIG == 15
DBL_DECIMAL_DIG == 17

\* The arithmetic of binary64 behind float(), true division and '.1f'.
\* Naturals are sequences of decimal digits, most significant first and
\* without leading zeros (<<>> is 0): the values go far beyond 2^31.

DigitValue(c) == FindFrom(Digits, c, 1) - 1
DigitsOf(str) == <<>> \o [k \in 1..Len(str) |-> DigitValue(Char(str, k))]

RECURSIVE TextOf(_)
TextOf(d) ==
    IF Len(d) = 0 THEN ""
    ELSE IF Len(d) = 1 THEN Char(Digits, d[1] + 1)
    ELSE TextOf(SubSeq(d, 1, Len(d) \div 2))
         \o TextOf(SubSeq(d, Len(d) \div 2 + 1, Len(d)))

Zeros(n) == <<>> \o [k \in 1..n |-> 0]
IsZero(d) == \A k \in 1..Len(d) : d[k] = 0

\* the number of zeros d starts with, and ends with
LeadingZeros(d) ==
    IF IsZero(d) THEN Len(d)
    ELSE (CHOOSE k \in 1..Len(d) : d[k] # 0 /\ \A h \in 1..(k - 1) : d[h] = 0) - 1
TrailingZeros(d) ==
    IF IsZero(d) THEN Len(d)
    ELSE Len(d) - (CHOOSE k \in 1..Len(d) :
                      d[k] # 0 /\ \A h \in (k + 1)..Len(d) : d[h] = 0)

Trim(d) == SubSeq(d, LeadingZeros(d) + 1, Len(d))
TrimRight(d) == SubSeq(d, 1, Len(d) - TrailingZeros(d))

IsOdd(d) == d # <<>> /\ d[Len(d)] % 2 = 1

\* a < b, for digit sequences of the same length and for naturals
LessDigits(a, b) ==
    \E k \in 1..Len(a) : a[k] < b[k] /\ \A h \in 1..(k - 1) : a[h] = b[h]
Less(a, b) == Len(a) < Len(b) \/ (Len(a) = Len(b) /\ LessDigits(a, b))

\* 2 * d: a digit takes a carry exactly when the next one is 5 or more
Twice(d) ==
    Trim(<<>> \o [k \in 1..(Len(d) + 1) |->
            (2 * (IF k = 1 THEN 0 ELSE d[k - 1])
               + (IF k <= Len(d) /\ d[k] >= 5 THEN 1 ELSE 0)) % 10])

\* d \div 2: a digit takes ten from an odd digit before it
Half(d) ==
    Trim(<<>> \o [k \in 1..Len(d) |->
            ((IF k > 1 /\ d[k - 1] % 2 = 1 THEN 10 ELSE 0) + d[k]) \div 2])

\* d + 1
Increment(d) ==
    IF \A k \in 1..Len(d) : d[k] = 9 THEN <<1>> \o Zeros(Len(d))
    ELSE LET j == CHOOSE k \in 1..Len(d) :
                     d[k] # 9 /\ \A h \in (k + 1)..Len(d) : d[h] = 9
         IN  <<>> \o [k \in 1..Len(d) |->
                 IF k < j THEN d[k] ELSE IF k = j THEN d[k] + 1 ELSE 0]

\* d - 1, for d > 0
Decrement(d) ==
    LET j == Len(d) - TrailingZeros(d)
    IN  Trim(<<>> \o [k \in 1..Len(d) |->
                 IF k < j THEN d[k] ELSE IF k = j THEN d[k] - 1 ELSE 9])

\* F applied n times.  The second half starts from the value of the first
\* (the test has it computed before it is passed on), which keeps the depth
\* of the evaluation logarithmic in n.
RECURSIVE Iterate(_, _, _)
Iterate(F(_), x, n) ==
    IF n = 0 THEN x
    ELSE IF n = 1 THEN F(x)
    ELSE LET mid == Iterate(F, x, n \div 2)
         IN  IF mid = mid THEN Iterate(F, mid, n - n \div 2) ELSE mid

\* A decimal: the digits before and after the point
Fixed(ip, fp) == [ip |-> ip, fp |-> fp]

TwiceFixed(x) ==
    LET d == <<>> \o [k \in 1..(Len(x.fp) + 1) |->
                 (2 * (IF k = 1 THEN 0 ELSE x.fp[k - 1])
                    + (IF k <= Len(x.fp) /\ x.fp[k] >= 5 THEN 1 ELSE 0)) % 10]
        t == Twice(x.ip)
    IN  Fixed(IF d[1] = 1 THEN Increment(t) ELSE t, Tail(d))

\* x / 2, exactly: the fraction gets one more digit when the last one is odd
HalfFixed(x) ==
    LET odd == IsOdd(x.ip)
        last == IF x.fp = <<>> THEN odd ELSE x.fp[Len(x.fp)] % 2 = 1
        fp == IF last THEN Append(x.fp, 0) ELSE x.fp
    IN  Fixed(Half(x.ip),
              <<>> \o [k \in 1..Len(fp) |->
                  ((IF (IF k = 1 THEN odd ELSE fp[k - 1] % 2 = 1) THEN 10 ELSE 0)
                     + fp[k]) \div 2])

\* a < b and a <= b for decimals
LessFixed(a, b) ==
    LET n == IF Len(a.fp) > Len(b.fp) THEN Len(a.fp) ELSE Len(b.fp)
    IN  \/ Less(a.ip, b.ip)
        \/ /\ a.ip = b.ip
           /\ LessDigits(a.fp \o Zeros(n - Len(a.fp)), b.fp \o Zeros(n - Len(b.fp)))

TWO52 == DigitsOf("4503599627370496")
TWO53 == DigitsOf("9007199254740992")
MIN_EXP == 1074

\* How a discarded fraction stands to one half: `r` when it is a half or
\* more, `st` when something is left besides that half
RoundBits(fp) ==
    [r |-> fp # <<>> /\ fp[1] >= 5,
     st |-> \E k \in 1..Len(fp) : fp[k] # (IF k = 1 /\ fp[1] >= 5 THEN 5 ELSE 0)]

\* n * 2^e with the discarded part in r and st: one more bit dropped
Shifted(s) ==
    [n |-> Half(s.n), r |-> IsOdd(s.n), st |-> s.st \/ s.r, e |-> s.e + 1]

RECURSIVE ShiftedBelow53(_)
ShiftedBelow53(s) ==
    IF Less(s.n, TWO53) THEN s
    ELSE LET t == Shifted(s) IN IF t = t THEN ShiftedBelow53(t) ELSE t

\* round half to even on the discarded part
RoundEven(s) ==
    LET m == IF s.r /\ (s.st \/ IsOdd(s.n)) THEN Increment(s.n) ELSE s.n
    IN  IF m = TWO53 THEN [m |-> TWO52, e |-> s.e + 1] ELSE [m |-> m, e |-> s.e]

\* the 53 bits of n * 2^e (n at or above 2^53 is shifted down, r and st first)
Rounded(n, r, st, e) ==
    LET known == ((Len(n) - 1) * 33219) \div 10000
        start == [n |-> n, r |-> r, st |-> st, e |-> e]
    IN  RoundEven(ShiftedBelow53(
            Iterate(Shifted, start, IF known > 53 THEN known - 53 ELSE 0)))

Raised(s) == [x |-> TwiceFixed(s.x), e |-> s.e - 1]

RECURSIVE RaisedTo52(_)
RaisedTo52(s) ==
    IF ~Less(s.x.ip, TWO52) \/ s.e = -MIN_EXP THEN s
    ELSE LET t == Raised(s) IN IF t = t THEN RaisedTo52(t) ELSE t

\* The binary64 nearest to the decimal x, as m * 2^e with m < 2^53 and
\* e >= -1074 (x below the overflow threshold); m is 0 when x is 0 or rounds to it
Binary64(x) ==
    IF x.ip = <<>> /\ IsZero(x.fp) THEN [m |-> <<>>, e |-> 0]
    ELSE IF ~Less(x.ip, TWO53)
    THEN LET b == RoundBits(x.fp) IN Rounded(x.ip, b.r, b.st, 0)
    ELSE LET sure == IF x.ip # <<>>
                     THEN 52 - (Len(x.ip) * 33220 + 9999) \div 10000
                     ELSE 52 + (LeadingZeros(x.fp) * 33219) \div 10000
             first == IF sure < 0 THEN 0 ELSE IF sure > MIN_EXP THEN MIN_EXP ELSE sure
             s == RaisedTo52(Iterate(Raised, [x |-> x, e |-> 0], first))
             b == RoundBits(s.x.fp)
         IN  RoundEven([n |-> s.x.ip, r |-> b.r, st |-> b.st, e |-> s.e])

\* m * 2^e as a decimal
Expanded(m, e) ==
    IF e >= 0 THEN Fixed(Iterate(Twice, m, e), <<>>)
    ELSE Iterate(HalfFixed, Fixed(m, <<>>), -e)

\* The decimals that round to the binary64 b: those between the midpoints
\* to its neighbours, the midpoints themselves when m is even
RoundsTo(c, lo, hi, even) ==
    IF even THEN ~LessFixed(c, lo) /\ ~LessFixed(hi, c)
    ELSE LessFixed(lo, c) /\ LessFixed(c, hi)

\* d * 10^k as a decimal
Scaled(d, k) ==
    IF k >= 0 THEN Fixed(Trim(d \o Zeros(k)), <<>>)
    ELSE IF -k < Len(d) THEN Fixed(Trim(SubSeq(d, 1, Len(d) + k)), SubSeq(d, Len(d) + k + 1, Len(d)))
    ELSE Fixed(<<>>, Zeros(-k - Len(d)) \o d)

\* the first n of the significant digits sig, whose first digit stands
\* `point` places before the decimal point, and the next decimal above
Below(sig, point, n) == Scaled(SubSeq(sig, 1, n), point - n)
Above(sig, point, n) == Scaled(Increment(SubSeq(sig, 1, n)), point - n)

\* n digits are enough to read the binary64 back
Fits(sig, point, lo, hi, even, n) ==
    \/ n >= Len(sig)
    \/ RoundsTo(Below(sig, point, n), lo, hi, even)
    \/ RoundsTo(Above(sig, point, n), lo, hi, even)

\* of the decimals of n digits that round to the binary64 x, the nearest to x
Nearest(x, sig, point, lo, hi, even, n) ==
    LET rest == RoundBits(SubSeq(sig, n + 1, Len(sig)))
        up == rest.r /\ (rest.st \/ IsOdd(SubSeq(sig, 1, n)))
        below == Below(sig, point, n)
        above == Above(sig, point, n)
    IN  IF n >= Len(sig) THEN x
        ELSE IF ~RoundsTo(above, lo, hi, even) THEN below
        ELSE IF ~RoundsTo(below, lo, hi, even) THEN above
        ELSE IF up THEN above ELSE below

\* the shortest decimal that rounds to x, which lies between lo and hi
Shortest(x, sig, point, lo, hi, even) ==
    Nearest(x, sig, point, lo, hi, even,
            CHOOSE k \in 1..DBL_DECIMAL_DIG :
                /\ Fits(sig, point, lo, hi, even, k)
                /\ \A h \in 1..(k - 1) : ~Fits(sig, point, lo, hi, even, h))

\* the significant digits of the decimal x and the place of the first
Significant(x, lo, hi, even) ==
    Shortest(x, TrimRight(Trim(x.ip \o x.fp)), Len(x.ip) - LeadingZeros(x.ip \o x.fp),
             lo, hi, even)

\* the midpoint between b and the binary64 below it, which is half as far
\* when b is a power of two
LowerMidpoint(b) ==
    IF b.m = TWO52 /\ b.e > -MIN_EXP
    THEN Expanded(Decrement(Twice(Twice(b.m))), b.e - 2)
    ELSE Expanded(Decrement(Twice(b.m)), b.e - 1)

\* repr(): the shortest decimal that rounds to b, the nearest to b of them
Repr(b) ==
    Significant(Expanded(b.m, b.e), LowerMidpoint(b),
                Expanded(Increment(Twice(b.m)), b.e - 1), ~IsOdd(b.m))

\* the float of a decimal of more than DBL_DIG digits: the repr() of the
\* binary64 it rounds to
FloatOf(neg, r) ==
    Number(neg, IF r.ip = <<>> THEN "0" ELSE TextOf(r.ip), TextOf(TrimRight(r.fp)))
ReprOrZero(b) == IF b.m = <<>> THEN Fixed(<<>>, <<>>) ELSE Repr(b)
RoundedFloat(neg, int, frac) ==
    FloatOf(neg, ReprOrZero(Binary64(Fixed(IF int = "0" THEN <<>> ELSE DigitsOf(int),
                                           DigitsOf(frac)))))

\* a decimal of at most DBL_DIG digits is the repr() of its float
ParsedFloat(neg, int, frac) ==
    IF Len(int) + Len(frac) <= DBL_DIG THEN Number(neg, int, frac)
    ELSE RoundedFloat(neg, int, frac)

\* The conversion of a text of an optional sign, ASCII digits and decimal
\* points: the text must hold at least one digit and at most one point, else
\* ValueError; the value is rounded to the nearest binary64, ties to even
StringToDouble(str) ==
    LET signed == str # "" /\ Char(str, 1) \in {"-", "+"}
        body == IF signed THEN Tail(str) ELSE str
        neg == signed /\ Char(str, 1) = "-"
        dot == FindFrom(body, ".", 1)
        ip == IF dot = 0 THEN body ELSE SubSeq(body, 1, dot - 1)
        fp == IF dot = 0 THEN "" ELSE SubSeq(body, dot + 1, Len(body))
        int == StripLeadingZeros(ip)
    IN  IF \/ ip \o fp = ""
           \/ \E i \in 1..Len(ip) : ~IsDigit(Char(ip, i))
           \/ \E i \in 1..Len(fp) : ~IsDigit(Char(fp, i))
        THEN ValueError
        ELSE IF Overflows(int) THEN Infinity(neg)
        ELSE ParsedFloat(neg, int, StripTrailingZeros(fp))

\* float(str) on what [\d.]+ can hand to it here: a digit of any script
\* counts by its value
PyFloat(str) == StringToDouble(Ascii(str))

\* the character class [\d.]
IsNumericChar(c) == IsDigit(c) \/ c = "."

\* the index of the first [\d.] character, 0 when there is none
RunStart(s) ==
    IF \A i \in 1..Len(s) : ~IsNumericChar(Char(s, i)) THEN 0
    ELSE CHOOSE i \in 1..Len(s) :
            /\ IsNumericChar(Char(s, i))
            /\ \A j \in 1..(i - 1) : ~IsNumericChar(Char(s, j))

\* the end of the run of [\d.] characters that starts at i (+ is greedy)
RunEnd(s, i) ==
    CHOOSE e \in i..Len(s) :
        /\ \A j \in i..e : IsNumericChar(Char(s, j))
        /\ (e = Len(s) \/ ~IsNumericChar(Char(s, e + 1)))

\* re.search(r'[\d.]+', cleaned).group(); "" when there is no match
NumericRun(cleaned) ==
    LET i == RunStart(cleaned)
    IN  IF i = 0 THEN "" ELSE SubSeq(cleaned, i, RunEnd(cleaned, i))

\* A faulty variant of Cleaned: the comma is not replaced by a period.
Cleaned_KeepsComma(v) == Strip(v)

\* value.strip().replace(',', '.')
Cleaned(v) == Replace(Strip(v), ",", ".")

clean_numeric_value(v) ==
    IF v = "" \/ Strip(v) = "" THEN Zero
    ELSE LET run == NumericRun(Cleaned(v))
         IN  IF run = "" THEN Zero
             ELSE IF PyFloat(run) = ValueError THEN Zero
             ELSE PyFloat(run)

\* The strings the normalizer is run on: every string of at most MaxLen
\* characters of NumChars, and digit runs around the binary64 limit.
NumChars == {"0", "7", ",", ".", "-", " ", "g"}

RECURSIVE Strings(_, _)
Strings(chars, n) ==
    IF n = 0 THEN {""}
    ELSE Strings(chars, n - 1)
         \cup {str \o c : str \in Strings(chars, n - 1), c \in chars}

\* c * n
RECURSIVE Repeat(_, _)
Repeat(c, n) ==
    IF n = 0 THEN ""
    ELSE LET half == Repeat(c, n \div 2)
         IN  half \o half \o (IF n % 2 = 1 THEN c ELSE "")

LongDigitRuns ==
    { "1" \o Repeat("0", Len(DBL_OVERFLOW) - 1),
      "1" \o Repeat("0", Len(DBL_OVERFLOW)),
      DBL_OVERFLOW,
      Repeat("9", Len(DBL_OVERFLOW) + 1) \o ",5 g" }

\* a value between two blanks of each kind
PaddedValues == {w \o "7,0 g" \o w : w \in Whitespace}

\* digit runs that no binary64 holds: one past 2^53, a 20-digit fraction next
\* to 0.1, and a value below every positive binary64
RoundedRuns ==
    { "9007199254740993 mg", "0,10000000000000000001",
      "0," \o Repeat("0", 400) \o "1" }

\* values written in the decimal digits of another script (Bengali)
ScriptValues == {"৩,৫ g", "১২ mg", "0৭.৫০"}

NumInputs ==
    Strings(NumChars, MaxLen) \cup LongDigitRuns \cup PaddedValues \cup RoundedRuns
    \cup ScriptValues

IdleNum == value = "" /\ num = Zero /\ npc = "idle"

\* def clean_numeric_value(value)
CleanNumericValue ==
    /\ npc = "call"
    /\ num' = clean_numeric_value(value)
    /\ npc' = "done"
    /\ UNCHANGED <<value, ctlVars, urlVars, porVars, tabVars, runVars, menuVars>>


-----------------------------------------------------------------------------
(* nutritional_scraper.py: extract_porcao *)

KEYWORD == "porção"

\* A <td>/<th> element, and a <table>: the text of its <thead> (when it has
\* one) and the rows of its <tbody> (when it has one), each a list of cells.
Cell(t, x) == [tag |-> t, text |-> x]
Table(ht, h, hb, r) == [has_thead |-> ht, thead |-> h, has_tbody |-> hb, rows |-> r]

\* The four regular expressions of `patterns`, all ending in
\* (.+?)(?:\n|<|$) and searched with re.IGNORECASE.  Each is a literal head
\* (kept lower-cased), optionally followed by \s+de, then \s* (ws = 0) or
\* \s+ (ws = 1) before the group.
patterns ==
    << [head |-> "porção:",   de |-> FALSE, ws |-> 0],
       [head |-> "porção de", de |-> FALSE, ws |-> 1],
       [head |-> "porção",    de |-> TRUE,  ws |-> 1],
       [head |-> "porção",    de |-> FALSE, ws |-> 1] >>

\* the length of the whitespace run of text that starts at index i
RECURSIVE SpaceRun(_, _)
SpaceRun(text, i) ==
    IF i <= Len(text) /\ IsSpace(Char(text, i)) THEN 1 + SpaceRun(text, i + 1) ELSE 0

\* The index after the literal part of the pattern matched at `start`, 0 when
\* it does not match there.  The greedy \s+ before "de" takes the whole run:
\* giving a character back would leave whitespace where "d" is required.
\* re.IGNORECASE compares character by character, each in its lower case.
LiteralAt(text, literal, i) ==
    /\ i + Len(literal) - 1 <= Len(text)
    /\ \A k \in 1..Len(literal) : LowerChar(Char(text, i + k - 1)) = Char(literal, k)

LiteralEnd(text, pat, start) ==
    LET e == start + Len(pat.head)
        w == SpaceRun(text, e)
    IN  IF ~LiteralAt(text, pat.head, start) THEN 0
        ELSE IF ~pat.de THEN e
        ELSE IF w >= 1 /\ LiteralAt(text, "de", e + w) THEN e + w + 2
        ELSE 0

\* the first index > p holding "\n" or "<", else the end of the text: where
\* the lazy group (.+?) that starts at p stops
RECURSIVE GroupEnd(_, _)
GroupEnd(text, e) ==
    IF e > Len(text) \/ Char(text, e) \in {"\n", "<"} THEN e
    ELSE GroupEnd(text, e + 1)

\* \s{ws,} then the group, from index q: the whitespace is greedy and is
\* given back one character at a time until the group can start, which it
\* can on any character but "\n".  Returns the group, "" when none.
RECURSIVE GroupAfter(_, _, _, _)
GroupAfter(text, q, k, min) ==
    IF k < min THEN ""
    ELSE IF q + k <= Len(text) /\ Char(text, q + k) # "\n"
         THEN SubSeq(text, q + k, GroupEnd(text, q + k + 1) - 1)
         ELSE GroupAfter(text, q, k - 1, min)

\* the pattern tried at one start index: match.group(1), "" when no match
MatchAt(text, pat, start) ==
    LET q == LiteralEnd(text, pat, start)
    IN  IF q = 0 THEN "" ELSE GroupAfter(text, q, SpaceRun(text, q), pat.ws)

\* re.search(pattern, text, re.IGNORECASE): the leftmost start that matches
re_search(pat, text) ==
    LET starts == {k \in 1..Len(text) : MatchAt(text, pat, k) # ""}
    IN  IF starts = {} THEN ""
        ELSE MatchAt(text, pat, CHOOSE k \in starts : \A j \in starts : k <= j)

\* match.group(1).strip() with ' '.join(porcao.split())
CleanPorcao(group) == JoinSplit(Strip(group))

\* `for pattern in patterns`: the first pattern that matches decides, and
\* its cleaned group is returned whatever it is
RECURSIVE PatternsFrom(_, _)
PatternsFrom(text, i) ==
    IF i > Len(patterns) THEN [matched |-> FALSE, porcao |-> ""]
    ELSE LET group == re_search(patterns[i], text)
         IN  IF group # ""
             THEN [matched |-> TRUE, porcao |-> CleanPorcao(group)]
             ELSE PatternsFrom(text, i + 1)

TryPatterns(text) == PatternsFrom(text, 1)

\* text.split('de', 1): the part after the first 'de' (case-sensitive)
AfterDe(text) == Slice(text, FindFrom(text, "de", 1) + 2, Len(text))

\* text.replace('Porção', '').replace('porção', '').strip(), words re-joined
StripKeyword(text) ==
    JoinSplit(Strip(Replace(Replace(text, "Porção", ""), "porção", "")))

\* `for cell in cells`: the cells of the first row, in order
RECURSIVE CellsPorcao(_)
CellsPorcao(cells) ==
    IF cells = <<>> THEN ""
    ELSE LET text == Head(cells).text
             found == TryPatterns(text)
             stripped == StripKeyword(text)
         IN  IF ~Contains(Lower(text), KEYWORD) THEN CellsPorcao(Tail(cells))
             ELSE IF found.matched THEN found.porcao
             ELSE IF Contains(Lower(text), "de") /\ Contains(text, "de")
                  THEN JoinSplit(Strip(AfterDe(text)))
             ELSE IF stripped # "" THEN stripped
             ELSE CellsPorcao(Tail(cells))

extract_porcao(t) ==
    LET found == TryPatterns(t.thead)
    IN  IF t.has_thead /\ found.matched THEN found.porcao
        ELSE IF t.has_tbody /\ t.rows # <<>> THEN CellsPorcao(t.rows[1])
        ELSE ""

\* The tables the resolver is run on: a header text (or no <thead>), and a
\* first body row of one or two cells.
HeadTexts ==
    { "Informação Nutricional", "Porção: 25 g (1 unidade)", "Porção: ",
      "INFORMAÇÃO NUTRICIONAL\nPorção de 2 dosadores - 10g\n", "Porção de \n",
      "ΩΣ PORÇÃO: 30g" }

CellTexts ==
    { pre \o kw \o sep \o rest :
        pre \in {"", "Quantidade por ", "10G DE "},
        kw \in {"Porção", "porção", "PORÇÃO", "Porçao"},
        sep \in {"", ":", ": ", " ", " de ", "de", " \n", ": "},
        rest \in {"", "30g", " ", "2 dosadores\n10g", "30 g <b>"} }

PorcaoRows ==
    {<<Cell("td", c)>> : c \in CellTexts}
    \cup {<<Cell("td", c), Cell("th", "Porção 30g")>> : c \in CellTexts}

HeadRows ==
    { <<>>, <<Cell("td", "Porção 30g")>>, <<Cell("td", "porção")>>,
      <<Cell("th", "%VD"), Cell("td", "Quantidade por porção")>> }

PorcaoTables ==
    {Table(FALSE, "", TRUE, <<r>>) : r \in PorcaoRows}
    \cup {Table(TRUE, h, TRUE, <<r>>) : h \in HeadTexts, r \in HeadRows}
    \cup {Table(TRUE, h, FALSE, <<>>) : h \in HeadTexts}
    \cup {Table(FALSE, "", TRUE, <<>>), Table(FALSE, "", FALSE, <<>>)}

NoTable == Table(FALSE, "", FALSE, <<>>)

IdlePorcao == table = NoTable /\ porcao = "" /\ ppc = "idle"

\* def extract_porcao(table)
ExtractPorcao ==
    /\ ppc = "call"
    /\ porcao' = extract_porcao(table)
    /\ ppc' = "done"
    /\ UNCHANGED <<table, ctlVars, urlVars, numVars, tabVars, runVars, menuVars>>


-----------------------------------------------------------------------------
(* nutritional_scraper.py: parse_nutritional_table *)

\* A product page: whether it has a <div class="flow">, whether that div
\* holds a <table>, and the first such table.
ProductPage(f, t, tb) == [has_flow |-> f, has_table |-> t, table |-> tb]

\* nutrient_mapping, in the dict's insertion order
nutrient_mapping ==
    << [key |-> "valor energético",   mapped_key |-> "calorias"],
       [key |-> "carboidratos",       mapped_key |-> "carboidratos"],
       [key |-> "proteínas",          mapped_key |-> "proteinas"],
       [key |-> "gorduras totais",    mapped_key |-> "gorduras"],
       [key |-> "gorduras saturadas", mapped_key |-> "gorduras_saturadas"],
       [key |-> "fibras alimentares", mapped_key |-> "fibras"],
       [key |-> "açúcares totais",    mapped_key |-> "acucares"],
       [key |-> "sódio",              mapped_key |-> "sodio"] >>

NutrientKeys == {nutrient_mapping[i].mapped_key : i \in 1..Len(nutrient_mapping)}

\* "Inicializa dados com valores padrão", with data['porcao'] set
InitialData(p) ==
    [k \in NutrientKeys \cup {"porcao"} |-> IF k = "porcao" THEN p ELSE Zero]

\* row.find_all('td')
TdCells(row) == SelectSeq(row, LAMBDA c : c.tag = "td")

\* A faulty variant of AssignedFrom: the loop has no break, every entry that matches
\* assigns its key.
AssignedFrom_NoBreak(nutrient_name, i) ==
    SelectSeq([k \in 1..Len(nutrient_mapping) |-> nutrient_mapping[k].mapped_key],
              LAMBDA m : \E k \in i..Len(nutrient_mapping) :
                            /\ nutrient_mapping[k].mapped_key = m
                            /\ Contains(nutrient_name, nutrient_mapping[k].key))

\* `for key, mapped_key in nutrient_mapping.items()` from entry i on: the
\* keys assigned for the label, in order; the loop breaks at the first hit
RECURSIVE AssignedFrom(_, _)
AssignedFrom(nutrient_name, i) ==
    IF i > Len(nutrient_mapping) THEN <<>>
    ELSE IF Contains(nutrient_name, nutrient_mapping[i].key)
         THEN <<nutrient_mapping[i].mapped_key>>
         ELSE AssignedFrom(nutrient_name, i + 1)

\* the keys one row assigns: none when it has fewer than two <td>
RowKeys(row) ==
    IF Len(TdCells(row)) >= 2
    THEN AssignedFrom(Lower(Strip(TdCells(row)[1].text)), 1)
    ELSE <<>>

\* data[mapped_key] = clean_numeric_value(nutrient_value) for each key
RECURSIVE Assign(_, _, _)
Assign(d, keys, v) ==
    IF keys = <<>> THEN d
    ELSE Assign([d EXCEPT ![Head(keys)] = v], Tail(keys), v)

\* A faulty variant of RowData: a field that already holds a value other than 0 is
\* not written again.
RowData_KeepsFirst(d, row) ==
    IF Len(TdCells(row)) >= 2 /\ \A i \in 1..Len(RowKeys(row)) : d[RowKeys(row)[i]] = Zero
    THEN Assign(d, RowKeys(row), clean_numeric_value(Strip(TdCells(row)[2].text)))
    ELSE d

RowData(d, row) ==
    IF Len(TdCells(row)) >= 2
    THEN Assign(d, RowKeys(row), clean_numeric_value(Strip(TdCells(row)[2].text)))
    ELSE d

\* tbody.find_all('tr'), empty when the table has no <tbody>
BodyRows(t) == IF t.has_tbody THEN t.rows ELSE <<>>

\* The pages the parser is run on.
Labels ==
    { "Valor energético (kcal)", "Carboidratos dos quais açúcares totais",
      "PROTEÍNAS", "Gorduras saturadas e gorduras totais", "Gorduras Saturadas",
      "\tFibras Alimentares ", "Açúcares totais", "Açúcares adicionados",
      "Sódio (mg)", "ΩΣ Proteínas" }

Values == {"12,5 g", "0 g"}

NutrientRows ==
    {<<Cell("td", l), Cell("td", v)>> : l \in Labels, v \in Values}
    \cup { <<Cell("td", "Carboidratos")>>,
           <<Cell("th", "Proteínas"), Cell("td", "10 g")>>,
           <<Cell("th", "Porção 30g"), Cell("td", "Sódio"), Cell("td", "7 mg"),
             Cell("td", "1")>> }

ProductPages ==
    {ProductPage(TRUE, TRUE, Table(TRUE, "Porção: 30 g", TRUE, r)) :
        r \in SeqsUpTo(NutrientRows, MaxRows)}
    \cup { ProductPage(FALSE, FALSE, NoTable),
           ProductPage(TRUE, FALSE, NoTable),
           ProductPage(TRUE, TRUE, NoTable),
           ProductPage(TRUE, TRUE, Table(TRUE, "Porção: 30 g", FALSE, <<>>)) }

NoProductPage == ProductPage(FALSE, FALSE, NoTable)
NoData == [none |-> TRUE]

IdleTable ==
    /\ tsoup = NoProductPage /\ data = NoData /\ rowi = 0
    /\ written = <<>> /\ tpc = "idle"

\* lines 211-220: no div.flow, or no table in it: return None
TableNotFound ==
    /\ tpc = "call"
    /\ ~(tsoup.has_flow /\ tsoup.has_table)
    /\ tpc' = "none"
    /\ UNCHANGED <<tsoup, data, rowi, written, ctlVars, urlVars, numVars, porVars, runVars, menuVars>>

\* lines 222-236: the defaults and the serving size
TableFound ==
    /\ tpc = "call"
    /\ tsoup.has_flow /\ tsoup.has_table
    /\ data' = InitialData(extract_porcao(tsoup.table))
    /\ rowi' = 1
    /\ tpc' = "rows"
    /\ UNCHANGED <<tsoup, written, ctlVars, urlVars, numVars, porVars, runVars, menuVars>>

\* lines 254-264: one iteration of `for row in rows`
ParseRow ==
    /\ tpc = "rows"
    /\ rowi <= Len(BodyRows(tsoup.table))
    /\ data' = RowData(data, BodyRows(tsoup.table)[rowi])
    /\ written' = Append(written, RowKeys(BodyRows(tsoup.table)[rowi]))
    /\ rowi' = rowi + 1
    /\ UNCHANGED <<tsoup, tpc, ctlVars, urlVars, numVars, porVars, runVars, menuVars>>

\* line 266: return data
ReturnData ==
    /\ tpc = "rows"
    /\ rowi > Len(BodyRows(tsoup.table))
    /\ tpc' = "done"
    /\ UNCHANGED <<tsoup, data, rowi, written, ctlVars, urlVars, numVars, porVars, runVars, menuVars>>

-----------------------------------------------------------------------------
(* nutritional_scraper.py: extract_product_name, scrape_product *)

CSV_COLUMNS ==
    << "nome", "url", "porcao", "calorias", "carboidratos", "proteinas",
       "gorduras", "gorduras_saturadas", "fibras", "acucares", "sodio",
       "data_coleta", "categoria" >>

NAME_NOT_FOUND == "Nome não encontrado"

\* An element a name selector can match: its tag, its classes and its text
\* (one text node, so get_text(strip=True) is the stripped text).
Element(t, c, x) == [tag |-> t, classes |-> c, text |-> x]

\* What a request for a product url gives: whether it succeeded, the
\* elements the name selectors look at in document order, and the three
\* fields parse_nutritional_table looks at (see ProductPage).
FetchedProduct(o, e, f, t, tb) ==
    [ok |-> o, elements |-> e, has_flow |-> f, has_table |-> t, table |-> tb]

\* `selectors` of extract_product_name; tag "" is any tag, class "" any class
selectors ==
    << [tag |-> "h1", class |-> "product_title"],
       [tag |-> "h1", class |-> "product-title"],
       [tag |-> "h1", class |-> ""],
       [tag |-> "",   class |-> "product-title"],
       [tag |-> "",   class |-> "product_title"] >>

Selects(sel, e) ==
    /\ sel.tag = "" \/ e.tag = sel.tag
    /\ sel.class = "" \/ sel.class \in e.classes

\* soup.select_one(selector): the first match in document order, or none
select_one(s, sel) ==
    LET m == SelectSeq(s.elements, LAMBDA e : Selects(sel, e))
    IN  IF m = <<>> THEN <<>> ELSE <<Head(m)>>

\* `for selector in selectors` from selector i on
RECURSIVE NameFrom(_, _)
NameFrom(s, i) ==
    IF i > Len(selectors) THEN NAME_NOT_FOUND
    ELSE LET element == select_one(s, selectors[i])
         IN  IF element # <<>> THEN Strip(element[1].text)
             ELSE NameFrom(s, i + 1)

extract_product_name(s) == NameFrom(s, 1)

\* `for row in rows` of parse_nutritional_table from row i on
RECURSIVE RowsData(_, _, _)
RowsData(d, rows, i) ==
    IF i > Len(rows) THEN d
    ELSE RowsData(RowData(d, rows[i]), rows, i + 1)

\* None is NoData
IsNone(x) == "none" \in DOMAIN x

\* A faulty variant of parse_nutritional_table: a page without the table gives
\* the default values instead of None.
parse_nutritional_table_Defaults(s) ==
    IF ~(s.has_flow /\ s.has_table) THEN InitialData("")
    ELSE RowsData(InitialData(extract_porcao(s.table)), BodyRows(s.table), 1)

\* parse_nutritional_table as one call
parse_nutritional_table(s) ==
    IF ~(s.has_flow /\ s.has_table) THEN NoData
    ELSE RowsData(InitialData(extract_porcao(s.table)), BodyRows(s.table), 1)

\* `if not nutritional_data`: None and the empty dict are false
Truthy(d) == ~IsNone(d) /\ DOMAIN d # {}

\* scrape_product(url, categoria) when the request gives s and datetime.now()
\* reads t: None when get_page gave None or no table was found
scrape_product(s, url, categoria, t) ==
    IF ~s.ok THEN NoData
    ELSE LET product_data(nome, nutritional_data) ==
                 IF ~Truthy(nutritional_data) THEN NoData
                 ELSE [k \in Range(CSV_COLUMNS) |->
                         CASE k = "nome" -> nome
                           [] k = "url" -> url
                           [] k = "data_coleta" -> t
                           [] k = "categoria" -> categoria
                           [] OTHER -> nutritional_data[k]]
         IN  product_data(extract_product_name(s), parse_nutritional_table(s))

-----------------------------------------------------------------------------
(* nutritional_scraper.py: main *)

\* the keys url_collector.main writes, in its order
Categories == <<"pre-treino", "snacks", "proteinas", "creatinas">>

ProductUrls ==
    { "https://adaptogen.com.br/produto/whey", "https://adaptogen.com.br/produto/bar" }

\* The product pages of the site.
FailedRequest == FetchedProduct(FALSE, <<>>, FALSE, FALSE, NoTable)
ProductDocs ==
    { FailedRequest,
      FetchedProduct(TRUE,
          << Element("h1", {}, "Adaptogen"),
             Element("h1", {"product_title", "entry-title"}, " Whey Protein ") >>,
          TRUE, TRUE,
          Table(TRUE, "Porção: 30 g", TRUE,
                << <<Cell("td", "Proteínas"), Cell("td", "12,5 g")>>,
                   <<Cell("td", "Sódio (mg)"), Cell("td", "0 g")>> >>)),
      FetchedProduct(TRUE, << Element("h2", {"title"}, "Barra") >>, TRUE, TRUE,
          Table(FALSE, "", TRUE, << <<Cell("td", "Vitamina C"), Cell("td", "45 mg")>> >>)),
      FetchedProduct(TRUE, << Element("div", {"product-title"}, "Creatina") >>,
          FALSE, FALSE, NoTable),
      FetchedProduct(TRUE, << Element("h1", {}, "") >>, TRUE, FALSE, NoTable) }

\* produtos_urls.items(): the categories in order, each with its list
Item(c, u) == [categoria |-> c, urls |-> u]

\* total_urls = sum(len(urls) for urls in produtos_urls.values())
RECURSIVE TotalFrom(_, _)
TotalFrom(m, i) ==
    IF i > Len(m) THEN 0 ELSE Len(m[i].urls) + TotalFrom(m, i + 1)

total_urls(m) == TotalFrom(m, 1)

\* The mappings the run is given: up to MaxCats categories that hold up to
\* MaxUnits urls together; a url may occur more than once.
Mappings ==
    UNION { { m \in { [i \in 1..n |-> Item(Categories[i], f[i])] :
                        f \in [1..n -> SeqsUpTo(ProductUrls, MaxUnits)] } :
                total_urls(m) <= MaxUnits } : n \in 0..MaxCats }

NoSummary == [none |-> TRUE]

\* A file of the disk: absent, or what it holds.  `whole` is false when the
\* write that made it stopped early: `content` is then what was written in
\* full, and what follows it in the file is cut anywhere.
NoFile == [exists |-> FALSE, whole |-> FALSE, content |-> <<>>]
File(c) == [exists |-> TRUE, whole |-> TRUE, content |-> c]
CutFile(c) == [exists |-> TRUE, whole |-> FALSE, content |-> c]

\* the locals of main before its first statement
FreshRun ==
    /\ produtos_urls = <<>> /\ ci = 0 /\ ui = 0
    /\ processed = 0 /\ success = 0 /\ failed = 0 /\ all_products = <<>>
    /\ handled = <<>> /\ summary = NoSummary

IdleRun ==
    /\ FreshRun /\ web = <<>> /\ now = 0 /\ csv = NoFile /\ rpc = "idle"

runFrame == <<ctlVars, urlVars, numVars, porVars, tabVars, menuVars>>

\* lines 345-349: load_product_urls raises, main returns
LoadFails ==
    /\ rpc = "load"
    /\ rpc' = "returned"
    /\ UNCHANGED <<produtos_urls, web, ci, ui, processed, success, failed,
                   all_products, handled, now, csv, summary, runFrame>>

\* lines 345-362: the mapping is loaded from the file, the counters are set
LoadProductUrls ==
    /\ rpc = "load"
    /\ json.exists /\ json.whole
    /\ produtos_urls' = json.content
    /\ ci' = 1 /\ ui' = 1
    /\ rpc' = "loop"
    /\ UNCHANGED <<web, processed, success, failed, all_products,
                   handled, now, csv, summary, runFrame>>

\* the url the two loops stand at
AtUrl ==
    /\ rpc = "loop"
    /\ ci <= Len(produtos_urls)
    /\ ui <= Len(produtos_urls[ci].urls)

\* the clock after get_page: a request that succeeds is followed by the sleep
AfterGetPage(s) == IF s.ok THEN now + REQUEST_DELAY * TICKS ELSE now

\* what scrape_product returns for the url the loops stand at
ProductData ==
    LET url == produtos_urls[ci].urls[ui]
    IN  scrape_product(web[url], url, produtos_urls[ci].categoria,
                       AfterGetPage(web[url]) \div TICKS)

Handled(r) ==
    [categoria |-> produtos_urls[ci].categoria, url |-> produtos_urls[ci].urls[ui],
     result |-> r]

\* A faulty variant of ProductFails: a product that gives no record ends the loop.
ProductFails_Aborts ==
    /\ AtUrl
    /\ \E product_data \in {ProductData} :
           /\ ~Truthy(product_data)
           /\ handled' = Append(handled, Handled(product_data))
    /\ processed' = processed + 1
    /\ failed' = failed + 1
    /\ now' = AfterGetPage(web[produtos_urls[ci].urls[ui]])
    /\ rpc' = "save"
    /\ UNCHANGED <<produtos_urls, web, ci, ui, success, all_products, csv, summary,
                   runFrame>>

\* lines 371-381, else branch: scrape_product gave None
ProductFails ==
    /\ AtUrl
    /\ \E product_data \in {ProductData} :
           /\ ~Truthy(product_data)
           /\ handled' = Append(handled, Handled(product_data))
    /\ processed' = processed + 1
    /\ failed' = failed + 1
    /\ now' = AfterGetPage(web[produtos_urls[ci].urls[ui]])
    /\ ui' = ui + 1
    /\ UNCHANGED <<produtos_urls, web, ci, success, all_products, csv, summary, rpc,
                   runFrame>>

\* A faulty variant of ProductSucceeds: the record is put in front of the list.
ProductSucceeds_Prepends ==
    /\ AtUrl
    /\ \E product_data \in {ProductData} :
           /\ Truthy(product_data)
           /\ handled' = Append(handled, Handled(product_data))
           /\ all_products' = <<product_data>> \o all_products
    /\ processed' = processed + 1
    /\ success' = success + 1
    /\ now' = AfterGetPage(web[produtos_urls[ci].urls[ui]])
    /\ ui' = ui + 1
    /\ UNCHANGED <<produtos_urls, web, ci, failed, csv, summary, rpc, runFrame>>

\* lines 371-379: scrape_product gave a record
ProductSucceeds ==
    /\ AtUrl
    /\ \E product_data \in {ProductData} :
           /\ Truthy(product_data)
           /\ handled' = Append(handled, Handled(product_data))
           /\ all_products' = Append(all_products, product_data)
    /\ processed' = processed + 1
    /\ success' = success + 1
    /\ now' = AfterGetPage(web[produtos_urls[ci].urls[ui]])
    /\ ui' = ui + 1
    /\ UNCHANGED <<produtos_urls, web, ci, failed, csv, summary, rpc, runFrame>>

\* line 365: the inner loop is over, the next item of the mapping is taken
NextCategory ==
    /\ rpc = "loop"
    /\ ci <= Len(produtos_urls)
    /\ ui > Len(produtos_urls[ci].urls)
    /\ ci' = ci + 1 /\ ui' = 1
    /\ UNCHANGED <<produtos_urls, web, processed, success, failed, all_products,
                   handled, now, csv, summary, rpc, runFrame>>

\* line 365: the mapping has no further item
LoopEnds ==
    /\ rpc = "loop"
    /\ ci > Len(produtos_urls)
    /\ rpc' = "save"
    /\ UNCHANGED <<produtos_urls, web, ci, ui, processed, success, failed,
                   all_products, handled, now, csv, summary, runFrame>>

\* writer.writerows(data): one row per record, the values in column order
CsvRows(records) ==
    [i \in 1..Len(records) |-> [c \in 1..Len(CSV_COLUMNS) |-> records[i][CSV_COLUMNS[c]]]]

\* lines 329-331: the header line, then the rows
CsvLines(records) == <<CSV_COLUMNS>> \o CsvRows(records)

\* the lines a write that stops early has finished: any but all of them
WrittenBeforeFailure(lines) == {SubSeq(lines, 1, k) : k \in 0..(Len(lines) - 1)}

\* lines 384-386: save_to_csv opens the file with 'w' and writes it
SaveToCsv ==
    /\ rpc = "save"
    /\ all_products # <<>>
    /\ csv' = File(CsvLines(all_products))
    /\ rpc' = "summary"
    /\ UNCHANGED <<produtos_urls, web, ci, ui, processed, success, failed,
                   all_products, handled, now, summary, runFrame>>

\* lines 328-335: save_to_csv raises.  Either open() failed and the file is
\* as it was, or open(filepath, 'w') had emptied it and a write failed: the
\* file is left with the lines written until then
SaveToCsvRaises ==
    /\ rpc = "save"
    /\ all_products # <<>>
    /\ csv' \in {csv} \cup {CutFile(l) : l \in WrittenBeforeFailure(CsvLines(all_products))}
    /\ rpc' = "raised"
    /\ UNCHANGED <<produtos_urls, web, ci, ui, processed, success, failed,
                   all_products, handled, now, summary, runFrame>>

\* line 384: no record, nothing is written
NothingToSave ==
    /\ rpc = "save"
    /\ all_products = <<>>
    /\ rpc' = "summary"
    /\ UNCHANGED <<produtos_urls, web, ci, ui, processed, success, failed,
                   all_products, handled, now, csv, summary, runFrame>>

\* the digits of a natural of the checker, and back
RECURSIVE NatDigits(_)
NatDigits(n) == IF n = 0 THEN <<>> ELSE Append(NatDigits(n \div 10), n % 10)

RECURSIVE NatOf(_)
NatOf(d) == IF d = <<>> THEN 0 ELSE 10 * NatOf(SubSeq(d, 1, Len(d) - 1)) + d[Len(d)]

\* d \div p and d % p, for a natural p of the checker
RECURSIVE DivMod(_, _)
DivMod(d, p) ==
    IF d = <<>> THEN [q |-> <<>>, r |-> 0]
    ELSE LET h == DivMod(SubSeq(d, 1, Len(d) - 1), p)
             cur == h.r * 10 + d[Len(d)]
         IN  [q |-> Trim(Append(h.q, cur \div p)), r |-> cur % p]

\* s / p of two ints, 0 < s <= p: the quotient is scaled to 53 bits, then
\* rounded on the remainder
TrueDiv(s, p) ==
    LET t == CHOOSE k \in 0..31 : s * 2^k >= p /\ \A h \in 0..(k - 1) : s * 2^h < p
        d == DivMod(Iterate(Twice, NatDigits(s), 52 + t), p)
    IN  RoundEven([n |-> d.q, r |-> 2 * d.r >= p,
                   st |-> d.r # 0 /\ 2 * d.r # p, e |-> -(52 + t)])

\* b * 100
Times100(b) == Rounded(b.m \o <<0, 0>>, FALSE, FALSE, b.e)

\* format(b, '.1f') as a number of tenths: b * 10 rounded half to even
Tenths(b) ==
    LET x == Expanded(b.m \o <<0>>, b.e)
        rest == RoundBits(x.fp)
    IN  NatOf(x.ip) + (IF rest.r /\ (rest.st \/ IsOdd(x.ip)) THEN 1 ELSE 0)

\* f"{(success/processed*100):.1f}", in tenths of a percent.  When
\* 1000 * s / p is not half way between two integers it is at least 1/(2p)
\* away from half way and the two roundings of binary64, below 1e-12, cannot
\* carry it across; when it is, the binary64 arithmetic decides.
SuccessRate(s, p) ==
    IF (2000 * s) % (2 * p) # p THEN (2000 * s + p) \div (2 * p)
    ELSE Tenths(Times100(TrueDiv(s, p)))

\* lines 389-398: the summary is logged and main returns
ReportSummary ==
    /\ rpc = "summary"
    /\ processed # 0
    /\ summary' = [processed |-> processed, success |-> success, failed |-> failed,
                   rate |-> <<SuccessRate(success, processed)>>]
    /\ rpc' = "done"
    /\ UNCHANGED <<produtos_urls, web, ci, ui, processed, success, failed,
                   all_products, handled, now, csv, runFrame>>

\* lines 392-395 with processed = 0: the three counts are logged, then
\* success/processed raises ZeroDivisionError
SummaryRaises ==
    /\ rpc = "summary"
    /\ processed = 0
    /\ summary' = [processed |-> processed, success |-> success, failed |-> failed,
                   rate |-> <<>>]
    /\ rpc' = "raised"
    /\ UNCHANGED <<produtos_urls, web, ci, ui, processed, success, failed,
                   all_products, handled, now, csv, runFrame>>

-----------------------------------------------------------------------------
(* url_collector.main *)

OnePageCategories == {"pre-treino", "snacks", "creatinas"}

IdleCollect == shelf = <<>> /\ produtos = <<>> /\ kpc = "idle"

collectFrame == <<urlVars, numVars, porVars, tabVars>>

\* scrape_pre_treino, scrape_snacks and scrape_creatinas have one body: the
\* page is fetched and given to extract_product_urls; get_page raises on a
\* failed request and the except clause returns the empty list
ScrapeOnePage(c, next) ==
    /\ kpc = c
    /\ produtos' = Append(produtos,
                          Item(c, IF shelf[c].ok THEN extract_product_urls(shelf[c], BASE_URL)
                                  ELSE <<>>))
    /\ now' = IF shelf[c].ok THEN now + REQUEST_DELAY * TICKS ELSE now
    /\ kpc' = next
    /\ UNCHANGED <<shelf, json, mpc, choices, ctlVars, runRest, collectFrame>>

\* line 230
ScrapePreTreino == ScrapeOnePage("pre-treino", "snacks")

\* line 231
ScrapeSnacks == ScrapeOnePage("snacks", "proteinas")

\* line 232: scrape_proteinas is entered
CallScrapeProteinas ==
    /\ kpc = "proteinas" /\ cpc = "idle"
    /\ page' = 1 /\ all_urls' = <<>> /\ fetched' = <<>> /\ extracted' = <<>>
    /\ result' = <<>>
    /\ cpc' = "loop"
    /\ UNCHANGED <<site, runVars, menuVars, collectFrame>>

\* line 232: scrape_proteinas has returned its list
ScrapeProteinasReturns ==
    /\ kpc = "proteinas" /\ cpc = "done"
    /\ produtos' = Append(produtos, Item("proteinas", result))
    /\ kpc' = "creatinas"
    /\ cpc' = "idle"
    /\ UNCHANGED <<site, page, all_urls, fetched, extracted, result, shelf, json,
                   mpc, choices, runVars, collectFrame>>

\* line 233
ScrapeCreatinas == ScrapeOnePage("creatinas", "save")

\* lines 245-250: save_to_json opens the file with 'w' and dumps the dict
SaveToJson ==
    /\ kpc = "save"
    /\ json' = File(produtos)
    /\ kpc' = "done"
    /\ UNCHANGED <<shelf, produtos, mpc, choices, ctlVars, runVars, collectFrame>>

\* lines 213-219: save_to_json raises.  Either open() failed and the file is
\* as it was, or it had been emptied and the dump stopped early: what is left
\* is the beginning of a JSON document, of which nothing can be loaded
SaveToJsonRaises ==
    /\ kpc = "save"
    /\ json' \in {json, CutFile(<<>>)}
    /\ kpc' = "raised"
    /\ UNCHANGED <<shelf, produtos, mpc, choices, ctlVars, runVars, collectFrame>>

-----------------------------------------------------------------------------
(* main.py *)

IdleMain == mpc = "off" /\ choices = 0

\* the number of options a session of the menu takes
MaxChoices == 2

\* mostrar_barra_progresso(texto, 1.5): barra_tamanho + 1 steps, each
\* followed by a sleep of 1.5 / barra_tamanho seconds
barra_tamanho == 40
BarShown == (barra_tamanho + 1) * ((3 * TICKS) \div (2 * barra_tamanho))

AtMenu == mpc = "menu" /\ choices < MaxChoices

\* url_collector.main is entered
CollectorCalled ==
    /\ produtos' = <<>>
    /\ kpc' = "pre-treino"

\* nutritional_scraper.main is entered
ScraperCalled ==
    /\ produtos_urls' = <<>> /\ ci' = 0 /\ ui' = 0
    /\ processed' = 0 /\ success' = 0 /\ failed' = 0 /\ all_products' = <<>>
    /\ handled' = <<>> /\ summary' = NoSummary
    /\ rpc' = "load"

\* nutritional_scraper.main is over: it finished, returned early or raised
ScraperOver == rpc \in {"done", "returned", "raised"}

menuFrame == <<ctlVars, urlVars, numVars, porVars, tabVars>>

\* option 1 confirmed, lines 118-126: the bar is shown, url_collector.main runs
ColetarUrls ==
    /\ AtMenu
    /\ choices' = choices + 1
    /\ now' = now + BarShown
    /\ CollectorCalled
    /\ mpc' = "coletar"
    /\ UNCHANGED <<shelf, json, runRest, menuFrame>>

\* lines 126-132: url_collector.main returned or raised, which is caught
ColetarUrlsReturns ==
    /\ mpc = "coletar" /\ kpc \in {"done", "raised"}
    /\ mpc' = "menu"
    /\ kpc' = "idle"
    /\ UNCHANGED <<shelf, produtos, json, choices, runVars, menuFrame>>

\* option 2 confirmed, lines 143-166: the file of urls exists, the bar is
\* shown, nutritional_scraper.main runs
ExtrairDadosNutricionais ==
    /\ AtMenu
    /\ json.exists
    /\ choices' = choices + 1
    /\ now' = now + BarShown
    /\ ScraperCalled
    /\ mpc' = "extrair"
    /\ UNCHANGED <<web, csv, shelf, produtos, json, kpc, menuFrame>>

\* lines 166-175: nutritional_scraper.main returned or raised, which is caught
ExtrairDadosNutricionaisReturns ==
    /\ mpc = "extrair" /\ ScraperOver
    /\ mpc' = "menu"
    /\ rpc' = "idle"
    /\ UNCHANGED <<produtos_urls, web, ci, ui, processed, success, failed,
                   all_products, handled, now, csv, summary, shelf, produtos, json,
                   kpc, choices, menuFrame>>

\* option 3 confirmed, lines 190-198: url_collector.main runs
ExecutarFluxoCompleto ==
    /\ AtMenu
    /\ choices' = choices + 1
    /\ CollectorCalled
    /\ mpc' = "fluxo_coleta"
    /\ UNCHANGED <<shelf, json, runVars, menuFrame>>

\* lines 200-208: after the collection, two seconds, then
\* nutritional_scraper.main
FluxoExtracao ==
    /\ mpc = "fluxo_coleta" /\ kpc = "done"
    /\ now' = now + 2 * TICKS
    /\ ScraperCalled
    /\ kpc' = "idle"
    /\ mpc' = "fluxo_extracao"
    /\ UNCHANGED <<web, csv, shelf, produtos, json, choices, menuFrame>>

\* lines 225-228: url_collector.main raised; the extraction is not run
FluxoColetaRaises ==
    /\ mpc = "fluxo_coleta" /\ kpc = "raised"
    /\ mpc' = "menu"
    /\ kpc' = "idle"
    /\ UNCHANGED <<shelf, produtos, json, choices, runVars, menuFrame>>

\* lines 208-228: nutritional_scraper.main returned or raised
ExecutarFluxoCompletoReturns ==
    /\ mpc = "fluxo_extracao" /\ ScraperOver
    /\ mpc' = "menu"
    /\ rpc' = "idle"
    /\ UNCHANGED <<produtos_urls, web, ci, ui, processed, success, failed,
                   all_products, handled, now, csv, summary, shelf, produtos, json,
                   kpc, choices, menuFrame>>

\* what the loop of os.remove calls of lines 323-328 leaves of the two files:
\* the JSON file is removed first, and the first call that raises ends the loop
Removed(j, c) ==
    {<<NoFile, NoFile>>}
    \cup (IF j.exists THEN {<<j, c>>} ELSE {})
    \cup (IF c.exists THEN {<<NoFile, c>>} ELSE {})

\* option 5 with the answer CONFIRMAR, lines 300-335
LimparDadosAntigos ==
    /\ AtMenu
    /\ json.exists \/ csv.exists
    /\ choices' = choices + 1
    /\ \E left \in Removed(json, csv) : json' = left[1] /\ csv' = left[2]
    /\ UNCHANGED <<produtos_urls, web, ci, ui, processed, success, failed,
                   all_products, handled, now, summary, rpc, shelf, produtos, kpc,
                   mpc, menuFrame>>

\* lines 431-433: an option that is none of 1-7
OpcaoInvalida ==
    /\ AtMenu
    /\ choices' = choices + 1
    /\ now' = now + 2 * TICKS
    /\ UNCHANGED <<shelf, produtos, json, kpc, mpc, runRest, menuFrame>>

\* lines 426-429: option 7
Sair ==
    /\ mpc = "menu"
    /\ mpc' = "exit"
    /\ UNCHANGED <<shelf, produtos, json, kpc, choices, runVars, menuFrame>>

-----------------------------------------------------------------------------
(* Specifications *)

IdleSession == IdleCollect /\ IdleMain /\ json = NoFile

InitCtl ==
    /\ site \in [1..MaxPage -> CatalogPages]
    /\ page = 1 /\ all_urls = <<>> /\ fetched = <<>> /\ extracted = <<>>
    /\ cpc = "loop" /\ result = <<>>
    /\ IdleUrls /\ IdleNum /\ IdlePorcao /\ IdleTable /\ IdleRun /\ IdleSession

NextCtl == FetchFails \/ EndOfPagination \/ NoUrlsOnPage \/ CollectPage

SpecCtl == InitCtl /\ [][NextCtl]_vars

\* the loop has no blocking step but get_page, which returns or raises
FairCtl == SpecCtl /\ WF_vars(NextCtl)

InitUrls ==
    /\ soup \in {Page(TRUE, {}, a) : a \in SeqsUpTo(Anchors, MaxAnchors)}
    /\ unique_urls = <<>> /\ upc = "call"
    /\ IdleCtl /\ IdleNum /\ IdlePorcao /\ IdleTable /\ IdleRun /\ IdleSession

SpecUrls == InitUrls /\ [][ExtractProductUrls]_vars

InitNum ==
    /\ value \in NumInputs
    /\ num = Zero /\ npc = "call"
    /\ IdleCtl /\ IdleUrls /\ IdlePorcao /\ IdleTable /\ IdleRun /\ IdleSession

SpecNum == InitNum /\ [][CleanNumericValue]_vars

InitPorcao ==
    /\ table \in PorcaoTables
    /\ porcao = "" /\ ppc = "call"
    /\ IdleCtl /\ IdleUrls /\ IdleNum /\ IdleTable /\ IdleRun /\ IdleSession

SpecPorcao == InitPorcao /\ [][ExtractPorcao]_vars

InitTable ==
    /\ tsoup \in ProductPages
    /\ data = NoData /\ rowi = 0 /\ written = <<>> /\ tpc = "call"
    /\ IdleCtl /\ IdleUrls /\ IdleNum /\ IdlePorcao /\ IdleRun /\ IdleSession

NextTable == TableNotFound \/ TableFound \/ ParseRow \/ ReturnData

SpecTable == InitTable /\ [][NextTable]_vars

\* A file an earlier run of the scraper has left
OldCsv ==
    File(CsvLines(<<[c \in Range(CSV_COLUMNS) |->
                        IF c \in {"nome", "url", "porcao", "categoria"} THEN "antes"
                        ELSE IF c = "data_coleta" THEN 0 ELSE Zero]>>))

\* nutritional_scraper.py run as a script: the file of urls is there or not,
\* whole or not, and the CSV file of an earlier run may be there
RunFiles == {File(m) : m \in Mappings} \cup {NoFile, CutFile(<<>>)}

InitRun ==
    /\ json \in RunFiles
    /\ csv \in {NoFile, OldCsv}
    /\ web \in [ProductUrls -> ProductDocs]
    /\ FreshRun /\ now = 0 /\ rpc = "load"
    /\ IdleCtl /\ IdleUrls /\ IdleNum /\ IdlePorcao /\ IdleTable
    /\ IdleCollect /\ IdleMain

NextRun ==
    \/ LoadFails \/ LoadProductUrls \/ ProductFails \/ ProductSucceeds
    \/ NextCategory \/ LoopEnds \/ SaveToCsv \/ SaveToCsvRaises \/ NothingToSave
    \/ ReportSummary \/ SummaryRaises

SpecRun == InitRun /\ [][NextRun]_vars

\* url_collector.py run as a script
InitCollect ==
    /\ shelf \in [OnePageCategories -> CatalogPages]
    /\ site \in [1..MaxPage -> CatalogPages]
    /\ page = 0 /\ all_urls = <<>> /\ fetched = <<>> /\ extracted = <<>>
    /\ cpc = "idle" /\ result = <<>>
    /\ produtos = <<>> /\ kpc = "pre-treino"
    /\ json \in {NoFile, File(<<>>)}
    /\ IdleUrls /\ IdleNum /\ IdlePorcao /\ IdleTable /\ IdleRun /\ IdleMain

NextCollect ==
    \/ ScrapePreTreino \/ ScrapeSnacks \/ CallScrapeProteinas \/ NextCtl
    \/ ScrapeProteinasReturns \/ ScrapeCreatinas \/ SaveToJson \/ SaveToJsonRaises

SpecCollect == InitCollect /\ [][NextCollect]_vars

\* What the site serves during a session of the menu: its catalog pages link
\* to the products of ProductUrls
WheyAndBar ==
    Page(TRUE, {}, <<Anchor({PRODUCT_LINK_CLASS}, TRUE, "/produto/whey"),
                     Anchor({PRODUCT_LINK_CLASS}, TRUE, "/produto/bar")>>)
LastPage == Page(TRUE, {NO_PRODUCTS_TEXT}, <<>>)
MenuShelves ==
    {[c \in OnePageCategories |-> IF c = "snacks" THEN p ELSE FailedFetch] :
        p \in {FailedFetch,
               Page(TRUE, {}, <<Anchor({PRODUCT_LINK_CLASS}, TRUE, "/produto/bar")>>)}}
MenuSites ==
    {[i \in 1..MaxPage |-> IF i <= k THEN WheyAndBar ELSE LastPage] : k \in 0..1}
MenuWebs ==
    {[u \in ProductUrls |-> d] :
        d \in {FailedRequest,
               FetchedProduct(TRUE, << Element("h2", {"title"}, "Barra") >>, TRUE, TRUE,
                   Table(FALSE, "", TRUE,
                         << <<Cell("td", "Vitamina C"), Cell("td", "45 mg")>> >>))}}

\* main.py: the menu is shown; the files of earlier sessions may be there
InitMenu ==
    /\ shelf \in MenuShelves
    /\ site \in MenuSites
    /\ web \in MenuWebs
    /\ json \in {NoFile, File(<<Item("snacks", <<"https://adaptogen.com.br/produto/bar">>)>>)}
    /\ csv \in {NoFile, OldCsv}
    /\ page = 0 /\ all_urls = <<>> /\ fetched = <<>> /\ extracted = <<>>
    /\ cpc = "idle" /\ result = <<>>
    /\ produtos = <<>> /\ kpc = "idle"
    /\ FreshRun /\ now = 0 /\ rpc = "idle"
    /\ mpc = "menu" /\ choices = 0
    /\ IdleUrls /\ IdleNum /\ IdlePorcao /\ IdleTable

NextMenu ==
    \/ ColetarUrls \/ ColetarUrlsReturns
    \/ ExtrairDadosNutricionais \/ ExtrairDadosNutricionaisReturns
    \/ ExecutarFluxoCompleto \/ FluxoExtracao \/ FluxoColetaRaises
    \/ ExecutarFluxoCompletoReturns
    \/ LimparDadosAntigos \/ OpcaoInvalida \/ Sair
    \/ NextCollect \/ NextRun

SpecMenu == InitMenu /\ [][NextMenu]_vars

\* The program is started as main.py, or one of its two modules is run as a
\* script, or one of their functions is called alone.
Init ==
    \/ InitMenu \/ InitCollect \/ InitRun
    \/ InitCtl \/ InitUrls \/ InitNum \/ InitPorcao \/ InitTable

Next ==
    \/ NextMenu
    \/ ExtractProductUrls \/ CleanNumericValue \/ ExtractPorcao \/ NextTable

Spec == Init /\ [][Next]_vars


-----------------------------------------------------------------------------
(* Claims about scrape_proteinas *)

\* a page that lets the loop go on: fetched, no marker, at least one url
GoodPage(p) ==
    p.ok /\ ~no_products(p) /\ extract_product_urls(p, BASE_URL) # <<>>

\* the urls of pages 1..n, as a set
UrlsOfPages(n) ==
    UNION {Range(extract_product_urls(site[j], BASE_URL)) : j \in 1..n}

\* the list 1, 2, ..., n
UpTo(n) == [k \in 1..n |-> k]

NoDuplicates(seq) == Len(seq) = Cardinality(Range(seq))

\* C1: when pages 1..n-1 are good and page n carries the marker, the
\* controller has made exactly the fetches 1..n and returns each url of
\* pages 1..n-1 once; page n contributes nothing.
C1_MarkerEndsPagination ==
    \A n \in 1..MaxPage :
        ( /\ cpc = "done"
          /\ \A j \in 1..(n - 1) : GoodPage(site[j])
          /\ site[n].ok /\ no_products(site[n]) )
        => /\ fetched = UpTo(n)
           /\ Range(result) = UrlsOfPages(n - 1)
           /\ NoDuplicates(result)

\* C1 witness: the marker is on page 3, pages 1 and 2 share a url, and the
\* marker page has a product link of its own.
C1_Witness ==
    /\ cpc = "done" /\ page = 3
    /\ site[3].ok /\ no_products(site[3]) /\ ProductLinks(site[3]) # <<>>
    /\ Len(extract_product_urls(site[1], BASE_URL) \o
           extract_product_urls(site[2], BASE_URL)) = 3
    /\ Len(result) = 2 /\ all_urls = result
    /\ fetched = <<1, 2, 3>>

\* C2: once the fetch of page k has failed the controller is done: the
\* fetches are exactly 1..k (no retry, no page k+1), nothing is raised, and
\* the result is the urls of pages 1..k-1, each once.
C2_FetchFailureStops ==
    \A k \in 1..MaxPage :
        (k \in Range(fetched) /\ ~site[k].ok)
        => /\ cpc = "done"
           /\ fetched = UpTo(k)
           /\ Range(result) = UrlsOfPages(k - 1)
           /\ NoDuplicates(result)

\* C2 witness: page 2 fails after page 1 gave urls.
C2_Witness ==
    /\ cpc = "done" /\ ~site[2].ok /\ fetched = <<1, 2>> /\ result # <<>>

\* C3: once extract_product_urls has given no url for page k (fetched, no
\* marker), the controller is done with page still k, fetches 1..k and the
\* urls of pages 1..k-1 as its result.
C3_EmptyPageStops ==
    \A k \in 1..MaxPage :
        ( /\ k \in Range(fetched)
          /\ site[k].ok /\ ~no_products(site[k])
          /\ extract_product_urls(site[k], BASE_URL) = <<>> )
        => /\ cpc = "done"
           /\ page = k
           /\ fetched = UpTo(k)
           /\ Range(result) = UrlsOfPages(k - 1)
           /\ NoDuplicates(result)

\* C3 witness: page 2 has anchors but no product url, page 1 gave urls.
C3_Witness ==
    /\ cpc = "done" /\ page = 2 /\ extracted = <<1, 2>>
    /\ site[2].ok /\ ~no_products(site[2]) /\ site[2].anchors # <<>>
    /\ result # <<>>

AllGood == \A k \in 1..MaxPage : GoodPage(site[k])

\* C4: Done is reached only on a page with one of the three events (marker,
\* no url, failed fetch); on a catalog whose pages are all good, page keeps
\* growing (here up to the bound of the model) and Done is never reached;
\* and when some page has one of the events, Done is eventually reached.
C4_Termination ==
    /\ [](cpc = "done" =>
            /\ page <= MaxPage /\ ~GoodPage(site[page])
            /\ \A j \in 1..(page - 1) : GoodPage(site[j]))
    /\ [](AllGood => cpc # "done")
    /\ (AllGood ~> page > MaxPage)
    /\ (~AllGood ~> cpc = "done")

\* C4 witness: every page was good and the loop is still running.
C4_Witness ==
    AllGood /\ page = MaxPage + 1 /\ cpc = "loop" /\ Len(fetched) = MaxPage


\* the pages whose urls were merged into all_urls
Merged == {p \in Range(extracted) : extract_product_urls(site[p], BASE_URL) # <<>>}

\* C20: the fetches made are 1, 2, 3, ... in order, one per iteration; the
\* page counter is one more than the number of merged pages, so at Done the
\* fetches are one more than the merged pages; and no page that holds the
\* marker has been given to extract_product_urls.
C20_FetchOrder ==
    /\ fetched = UpTo(Len(fetched))
    /\ cpc = "loop" => Len(fetched) = page - 1 /\ Merged = Range(fetched)
    /\ cpc = "done" => Len(fetched) = page /\ Len(fetched) = Cardinality(Merged) + 1
    /\ cpc \in {"loop", "done"} => page = Cardinality(Merged) + 1
    /\ \A k \in 1..Len(extracted) :
          /\ NO_PRODUCTS_TEXT \notin site[extracted[k]].h3
          /\ extracted[k] = fetched[k]

\* C20 witness: two pages were merged and the third, which holds the marker
\* and a product link, ended the run without being given to the collector.
C20_Witness ==
    /\ cpc = "done" /\ fetched = <<1, 2, 3>> /\ extracted = <<1, 2>>
    /\ NO_PRODUCTS_TEXT \in site[3].h3
    /\ site[3].anchors # <<>>

-----------------------------------------------------------------------------
(* Claims about extract_product_urls *)

\* the normalized hrefs of the selected anchors, in document order
Candidates(s) == LinkUrls(ProductLinks(s), BASE_URL)

\* the index of the first occurrence of x in seq
FirstIndex(seq, x) ==
    CHOOSE i \in 1..Len(seq) : seq[i] = x /\ \A j \in 1..(i - 1) : seq[j] # x

\* C5: the list returned has no duplicate, holds every normalized candidate
\* href, and is ordered by the first occurrence of each among the candidates.
C5_UniqueInFirstSeenOrder ==
    upc = "done" =>
        /\ NoDuplicates(unique_urls)
        /\ Range(unique_urls) = Range(Candidates(soup))
        /\ \A i, j \in 1..Len(unique_urls) :
              i < j => FirstIndex(Candidates(soup), unique_urls[i])
                       < FirstIndex(Candidates(soup), unique_urls[j])

\* C5 witness: two anchors with the same href around a different one; the
\* reference is returned once, at the place of the first anchor.
C5_Witness ==
    /\ upc = "done"
    /\ Len(soup.anchors) = 3
    /\ soup.anchors[1].href = soup.anchors[3].href
    /\ Len(Candidates(soup)) = 3
    /\ Len(unique_urls) = 2
    /\ unique_urls[1] = BASE_URL \o soup.anchors[1].href

\* an absolute http(s) URL: the scheme followed by "://"
IsAbsoluteUrl(u) == StartsWith(u, "http://") \/ StartsWith(u, "https://")

\* what the three rules of the claim give for an href
Resolved(href) ==
    IF IsAbsoluteUrl(href) THEN href
    ELSE IF StartsWith(href, "/") THEN BASE_URL \o href
    ELSE BASE_URL \o "/" \o href

\* the hrefs of the selected anchors that are not skipped
CandidateHrefs(s) ==
    {ProductLinks(s)[i].href : i \in {k \in 1..Len(ProductLinks(s)) :
        ProductLinks(s)[k].has_href /\ ProductLinks(s)[k].href # ""}}

\* C6: every reference returned is an absolute URL: an absolute href
\* unchanged, a root-relative one prefixed with base_url, any other one
\* joined under base_url.
C6_EveryReferenceAbsolute ==
    upc = "done" =>
        /\ \A u \in Range(unique_urls) : IsAbsoluteUrl(u)
        /\ Range(unique_urls) = {Resolved(h) : h \in CandidateHrefs(soup)}


\* the hrefs of the anchors each selector matches, those skipped left out
HasPrimary(s) == \E i \in 1..Len(s.anchors) : PRODUCT_LINK_CLASS \in s.anchors[i].classes

PrimaryHrefs(s) ==
    {s.anchors[i].href : i \in {k \in 1..Len(s.anchors) :
        /\ PRODUCT_LINK_CLASS \in s.anchors[k].classes
        /\ s.anchors[k].has_href /\ s.anchors[k].href # ""}}

FallbackHrefs(s) ==
    {s.anchors[i].href : i \in {k \in 1..Len(s.anchors) :
        s.anchors[k].has_href /\ Contains(s.anchors[k].href, PRODUCT_PATH)}}

\* C17: when an anchor has the product-link class the result is built from
\* the anchors with that class alone; the anchors whose href holds
\* '/produto/' are used only when there is none; with no candidate the
\* result is the empty list.
C17_FallbackOnlyWithoutPrimary ==
    upc = "done" =>
        /\ HasPrimary(soup) =>
              Range(unique_urls) = {AbsoluteUrl(h, BASE_URL) : h \in PrimaryHrefs(soup)}
        /\ ~HasPrimary(soup) =>
              Range(unique_urls) = {AbsoluteUrl(h, BASE_URL) : h \in FallbackHrefs(soup)}
        /\ (PrimaryHrefs(soup) = {} /\ FallbackHrefs(soup) = {}) => unique_urls = <<>>

\* C17 witness: the only anchor with the class has no href, another anchor
\* links to a product, and the result is empty.
C17_Witness ==
    /\ upc = "done" /\ Len(soup.anchors) = 2
    /\ PRODUCT_LINK_CLASS \in soup.anchors[1].classes /\ ~soup.anchors[1].has_href
    /\ soup.anchors[2].classes = {} /\ soup.anchors[2].href = "/produto/whey"
    /\ unique_urls = <<>>

-----------------------------------------------------------------------------
(* Claims about clean_numeric_value *)

\* C7: the normalizer never raises and returns a finite, non-negative
\* number for every input string.
C7_FiniteNonNegative ==
    npc = "done" => num # ValueError /\ ~num.inf /\ ~num.neg

AllDigits(str) == \A i \in 1..Len(str) : IsDigit(Char(str, i))

\* value is "<int>,<frac>": digits, one comma, digits (not both empty)
IsCommaForm(v) ==
    LET c == FindFrom(v, ",", 1)
    IN  /\ c # 0
        /\ Len(v) >= 2
        /\ AllDigits(SubSeq(v, 1, c - 1))
        /\ AllDigits(SubSeq(v, c + 1, Len(v)))

\* "<int>.<frac>" for a value "<int>,<frac>"
PeriodForm(v) ==
    LET c == FindFrom(v, ",", 1)
    IN  SubSeq(v, 1, c - 1) \o "." \o SubSeq(v, c + 1, Len(v))

NoDigit(v) == \A i \in 1..Len(v) : ~IsDigit(Char(v, i))

\* C8: normalize("<int>,<frac>") is the number written "<int>.<frac>" and
\* is normalize("<int>.<frac>"); a string without any digit normalizes to 0.
C8_CommaPeriodEquivalence ==
    npc = "done" =>
        /\ IsCommaForm(value) =>
              /\ num = PyFloat(PeriodForm(value))
              /\ num = clean_numeric_value(PeriodForm(value))
        /\ NoDigit(value) => num = Zero

\* C8 witness: "70,7" has been normalized to 70.7.
C8_Witness ==
    npc = "done" /\ value = "70,7" /\ num = Number(FALSE, "70", "7")

\* the first maximal run of digits with at most one decimal point in c:
\* it starts at the first digit, or at a point that a digit follows
ClaimRunStart(c) ==
    LET starts == {i \in 1..Len(c) :
                     \/ IsDigit(Char(c, i))
                     \/ Char(c, i) = "." /\ i < Len(c) /\ IsDigit(Char(c, i + 1))}
    IN  IF starts = {} THEN 0 ELSE CHOOSE i \in starts : \A j \in starts : i <= j

ClaimRunEnd(c, i) ==
    LET ends == {j \in i..Len(c) :
                    /\ \A k \in i..j : IsDigit(Char(c, k)) \/ Char(c, k) = "."
                    /\ Cardinality({k \in i..j : Char(c, k) = "."}) <= 1}
    IN  CHOOSE j \in ends : \A k \in ends : k <= j

\* C15: with the commas replaced by periods, the value returned is the
\* number the first maximal run of digits with at most one decimal point
\* denotes, and 0 when the string has no such run.
C15_FirstRunIsTheValue ==
    npc = "done" =>
        LET c == Replace(value, ",", ".")
            i == ClaimRunStart(c)
        IN  num = IF i = 0 THEN Zero ELSE PyFloat(SubSeq(c, i, ClaimRunEnd(c, i)))

-----------------------------------------------------------------------------
(* Claims about extract_porcao *)

\* the first non-empty string of a list, "" when there is none
RECURSIVE FirstNonEmpty(_)
FirstNonEmpty(seq) ==
    IF seq = <<>> THEN ""
    ELSE IF Head(seq) # "" THEN Head(seq) ELSE FirstNonEmpty(Tail(seq))

\* what each rule yields on its own: the header patterns, and for a cell
\* that holds the keyword the patterns, the connector split, the keyword strip
HeaderRule(t) == IF t.has_thead THEN TryPatterns(t.thead).porcao ELSE ""
PatternRule(text) == TryPatterns(text).porcao
SplitRule(text) ==
    IF Contains(Lower(text), "de") /\ Contains(text, "de")
    THEN JoinSplit(Strip(AfterDe(text))) ELSE ""
StripRule(text) == StripKeyword(text)

RECURSIVE CellRules(_)
CellRules(cells) ==
    IF cells = <<>> THEN <<>>
    ELSE LET text == Head(cells).text
         IN  (IF Contains(Lower(text), KEYWORD)
              THEN <<PatternRule(text), SplitRule(text), StripRule(text)>>
              ELSE <<>>)
             \o CellRules(Tail(cells))

RuleResults(t) ==
    <<HeaderRule(t)>>
    \o (IF t.has_tbody /\ t.rows # <<>> THEN CellRules(t.rows[1]) ELSE <<>>)

\* C9: the result is that of the first rule, in the fixed order, that
\* yields a non-empty string, and is empty only when no rule yields one.
C9_FirstNonEmptyRule ==
    ppc = "done" => porcao = FirstNonEmpty(RuleResults(table))

\* where the code and the cascade of C9 differ, the code has returned ""
\* from a rule that matched and yielded nothing
C9_DivergesOnlyOnEmpty ==
    (ppc = "done" /\ porcao # FirstNonEmpty(RuleResults(table))) => porcao = ""

\* the keyword-strip rule is the one applied to the text of a cell: the
\* cell holds the keyword, no pattern matches it and it has no 'de' to split
StripRuleApplies(text) ==
    /\ Contains(Lower(text), KEYWORD)
    /\ ~TryPatterns(text).matched
    /\ ~Contains(text, "de")

\* C16: for a table whose header gives nothing and whose first row is one
\* cell that the keyword-strip rule applies to, the result does not hold the
\* keyword in any letter case, and it is empty when the cell is the keyword
\* and whitespace only.
C16_KeywordStrippedInAnyCase ==
    ( /\ ppc = "done"
      /\ ~(table.has_thead /\ TryPatterns(table.thead).matched)
      /\ table.has_tbody /\ table.rows # <<>> /\ Len(table.rows[1]) = 1
      /\ StripRuleApplies(table.rows[1][1].text) ) =>
        /\ ~Contains(Lower(porcao), KEYWORD)
        /\ Lower(Strip(table.rows[1][1].text)) = KEYWORD => porcao = ""

-----------------------------------------------------------------------------
(* Claims about the nutrient-label mapping of parse_nutritional_table *)

\* the entries of nutrient_mapping whose key is in the lower-cased label
Hits(label) ==
    LET low == Lower(label)
    IN  {i \in 1..Len(nutrient_mapping) : Contains(low, nutrient_mapping[i].key)}

FirstHit(label) == CHOOSE i \in Hits(label) : \A j \in Hits(label) : i <= j

\* C10: a row with a label and a value writes the field of the first entry,
\* in mapping order, whose key is in the lower-cased label, and no other
\* field; a label holding none of the keys leaves the record as it was.
C10_FirstMappingEntryWins ==
    [][ (tpc = "rows" /\ rowi' = rowi + 1 /\ Len(TdCells(BodyRows(tsoup.table)[rowi])) >= 2) =>
          LET label == TdCells(BodyRows(tsoup.table)[rowi])[1].text
              raw == TdCells(BodyRows(tsoup.table)[rowi])[2].text
          IN  IF Hits(label) = {}
              THEN data' = data /\ written'[rowi] = <<>>
              ELSE LET field == nutrient_mapping[FirstHit(label)].mapped_key
                   IN  /\ written'[rowi] = <<field>>
                       /\ data'[field] = clean_numeric_value(raw)
                       /\ \A k \in DOMAIN data \ {field} : data'[k] = data[k]
      ]_vars

\* C10 witness: a label holding two keys ("gorduras saturadas" comes first
\* in the label, "gorduras totais" first in the mapping) was mapped, and a
\* label holding no key left the record alone.
C10_Witness ==
    /\ tpc = "done" /\ Len(written) = 2
    /\ BodyRows(tsoup.table)[1] =
          <<Cell("td", "Gorduras saturadas e gorduras totais"), Cell("td", "12,5 g")>>
    /\ BodyRows(tsoup.table)[2] =
          <<Cell("td", "Açúcares adicionados"), Cell("td", "12,5 g")>>
    /\ written = << <<"gorduras">>, <<>> >>
    /\ data.gorduras = Number(FALSE, "12", "5")
    /\ data.gorduras_saturadas = Zero /\ data.acucares = Zero

-----------------------------------------------------------------------------
(* Claims about scrape_product and nutritional_scraper.main *)

\* the field a row maps to: that of the first mapping entry whose key is
\* in the label, "" for a row without a label and a value or with no key
RowField(row) ==
    IF Len(TdCells(row)) < 2 THEN ""
    ELSE LET hits == Hits(TdCells(row)[1].text)
         IN  IF hits = {} THEN ""
             ELSE nutrient_mapping[CHOOSE i \in hits : \A j \in hits : i <= j].mapped_key

\* the fields the rows of a table map to, in table order
RowFields(t) == [i \in 1..Len(BodyRows(t)) |-> RowField(BodyRows(t)[i])]

\* no element of the page is an <h1> or has one of the two title classes
NoNameElement(s) ==
    \A i \in 1..Len(s.elements) :
        /\ s.elements[i].tag # "h1"
        /\ s.elements[i].classes \cap {"product_title", "product-title"} = {}

\* C11: scrape_product gives a record only for a page that has the
\* div.flow with a table in it; a fetched page without the div or without
\* the table gives None; a page with both always gives a record, in which
\* every nutrient field no row maps to is 0 and the name is the placeholder
\* when no name element matches.
C11_RecordOnlyFromTable ==
    \A i \in 1..Len(handled) :
        LET s == web[handled[i].url]
            r == handled[i].result
        IN  /\ ~IsNone(r) => s.ok /\ s.has_flow /\ s.has_table
            /\ (s.ok /\ ~(s.has_flow /\ s.has_table)) => IsNone(r)
            /\ (s.ok /\ s.has_flow /\ s.has_table) =>
                  /\ ~IsNone(r)
                  /\ DOMAIN r = Range(CSV_COLUMNS)
                  /\ LET mapped == Range(RowFields(s.table))
                     IN  \A k \in NutrientKeys \ mapped : r[k] = Zero
                  /\ NoNameElement(s) => r.nome = NAME_NOT_FOUND

\* C11 witness: one product whose page has the div but no table gave None,
\* and one whose table maps no row and whose page has no name element gave
\* a record of zeros under the placeholder name.
C11_Witness ==
    \E i, j \in 1..Len(handled) :
        /\ web[handled[i].url].ok /\ web[handled[i].url].has_flow
        /\ ~web[handled[i].url].has_table
        /\ IsNone(handled[i].result)
        /\ NoNameElement(web[handled[j].url])
        /\ ~IsNone(handled[j].result)
        /\ handled[j].result.nome = NAME_NOT_FOUND
        /\ \A k \in NutrientKeys : handled[j].result[k] = Zero

\* the (categoria, url) units of a mapping, in input order
RECURSIVE UnitsFrom(_, _, _)
UnitsFrom(m, i, j) ==
    IF i > Len(m) THEN <<>>
    ELSE IF j > Len(m[i].urls) THEN UnitsFrom(m, i + 1, 1)
    ELSE <<[categoria |-> m[i].categoria, url |-> m[i].urls[j]]>> \o UnitsFrom(m, i, j + 1)

Units == UnitsFrom(produtos_urls, 1, 1)

LoopOver == rpc \in {"save", "summary", "done", "raised"}

\* C13: the products handled so far are the first units of the input, each
\* once and in input order, whatever scrape_product returned for them, and
\* when the loop is over every unit has been handled.
C13_EveryProductProcessedOnce ==
    /\ Len(handled) <= Len(Units)
    /\ \A i \in 1..Len(handled) :
          /\ handled[i].categoria = Units[i].categoria
          /\ handled[i].url = Units[i].url
    /\ LoopOver => Len(handled) = Len(Units)

\* C13 witness: the first product's request failed, the second gave a
\* record, and a third one, of the next category, was handled after them.
C13_Witness ==
    /\ rpc = "done" /\ Len(handled) = 3
    /\ ~web[handled[1].url].ok /\ IsNone(handled[1].result)
    /\ ~IsNone(handled[2].result)
    /\ handled[3].categoria # handled[1].categoria

\* C14: a run whose mapping was loaded, and whose CSV write did not fail,
\* ends normally with the three counts and the success rate reported.
C14_SummaryAlwaysReported ==
    /\ rpc = "raised" => IsNone(summary)
    /\ rpc = "done" =>
          /\ ~IsNone(summary)
          /\ summary.processed = processed /\ summary.success = success
          /\ summary.failed = failed /\ summary.rate # <<>>

\* the records scrape_product returned, in the order of the calls
RECURSIVE RecordsOf(_)
RecordsOf(h) ==
    IF h = <<>> THEN <<>>
    ELSE (IF IsNone(Head(h).result) THEN <<>> ELSE <<Head(h).result>>)
         \o RecordsOf(Tail(h))

\* the lines l are the first lines of m
IsPrefix(l, m) == Len(l) <= Len(m) /\ \A i \in 1..Len(l) : l[i] = m[i]

\* C19: processed = success + failed, the records kept are one per success,
\* processed never passes the number of input references and is that number
\* once the loop is over, and the CSV file is written only when there is a
\* record: until then it is as the run found it, a run that ends with a
\* record leaves the header and one row per record in processing order, and
\* a write that failed leaves the first of these lines.
C19_CountersAndOutput ==
    /\ processed = success + failed
    /\ processed = Len(handled)
    /\ Len(all_products) = success
    /\ all_products = RecordsOf(handled)
    /\ processed <= Len(Units)
    /\ LoopOver => processed = Len(Units)
    /\ (success = 0 \/ rpc \in {"load", "loop", "save", "returned"}) =>
          csv \in {NoFile, OldCsv}
    /\ (rpc \in {"summary", "done"} /\ success >= 1) =>
          csv = File(CsvLines(RecordsOf(handled)))
    /\ csv \notin {NoFile, OldCsv} =>
          /\ csv.exists
          /\ IsPrefix(csv.content, CsvLines(RecordsOf(handled)))
          /\ csv.whole <=> Len(csv.content) = success + 1

\* C19 witness: a run of three products, the second of which failed, has
\* written the header and the two records, the earlier collected one first.
C19_Witness ==
    /\ rpc = "done" /\ processed = 3 /\ success = 2 /\ failed = 1
    /\ IsNone(handled[2].result)
    /\ csv.whole /\ Len(csv.content) = 3
    /\ csv.content[1] = CSV_COLUMNS
    /\ csv.content[2][12] = handled[1].result.data_coleta
    /\ csv.content[3][12] = handled[3].result.data_coleta
    /\ csv.content[2][12] < csv.content[3][12]

-----------------------------------------------------------------------------
(* Claims about the row loop of parse_nutritional_table *)

LastOf(S) == CHOOSE i \in S : \A j \in S : j <= i

\* C18: after the first n rows, in table order, every field holds the
\* normalized value of the last of them that maps to it, also when that
\* value is 0, and 0 when none does; a row of fewer than two cells has
\* written nothing.
C18_LastWriteWins ==
    tpc \in {"rows", "done"} =>
        LET rows == BodyRows(tsoup.table)
            n == rowi - 1
            fields == RowFields(tsoup.table)
        IN  /\ Len(written) = n
            /\ \A i \in 1..n : Len(rows[i]) < 2 => written[i] = <<>>
            /\ \A k \in NutrientKeys :
                  LET mapping == {i \in 1..n : fields[i] = k}
                  IN  data[k] = IF mapping = {} THEN Zero
                                ELSE clean_numeric_value(TdCells(rows[LastOf(mapping)])[2].text)

\* C18 witness: two rows map to proteinas, the first with 12,5 g and the
\* second with 0 g, and the field is 0 at the end.
C18_Witness ==
    /\ tpc = "done"
    /\ BodyRows(tsoup.table) =
          << <<Cell("td", "PROTEÍNAS"), Cell("td", "12,5 g")>>,
             <<Cell("td", "PROTEÍNAS"), Cell("td", "0 g")>> >>
    /\ written = << <<"proteinas">>, <<"proteinas">> >>
    /\ data.proteinas = Zero

====
